---- MODULE Spec2Model ----
(***************************************************************************)
(* Model of the feed connection manager (WebSocketService) and of the      *)
(* exchange adapter registry (exchangeConfigs) of the real-time order book *)
(* viewer, src/src/services/api/websocketService.ts.                       *)
(*                                                                         *)
(* The browser's WebSocket and timer objects are the environment.  A       *)
(* socket goes CONNECTING -> OPEN -> CLOSING -> CLOSED; close() moves a    *)
(* CONNECTING or OPEN socket to CLOSING at once; the message event of a    *)
(* frame is dispatched only while the socket is OPEN; a failing connection *)
(* fires error and then close in one task.                                 *)
(***************************************************************************)
EXTENDS Integers, Sequences, FiniteSets, TLC

\* ------------------------------------------------------------ bounds
\* connect() calls of the consumer and sockets constructed, in a run of Spec
MaxConnects == 2
MaxSockets == 3
\* the same in a run of SpecRetry, which follows one target through its retries
RetryConnects == 1
RetrySockets == 7
\* the same in a run of SpecFeed, and the frames the exchanges send in it
FeedConnects == 1
FeedSockets == 2
MaxFrames == 2
\* the levels a side of a raw message holds, in a run of SpecNormalize, and
\* the levels of its one long side, which has more than any depth cap
MaxDepth == 2
LongDepth == 51
\* the levels a side of an input book holds, in a run of SpecAggregate, and
\* the levels of its deep sides, which have more than the 15 that are kept
MaxLevels == 2
DeepLevels == 17
\* the levels a side of a book holds, in a run of SpecSimulate
MaxSimulated == 2
\* the books given to the hook, the times its target changes and the steps of
\* 100 ms its clock takes, in a run of SpecHook
MaxUpdates == 3
MaxEffects == 2
MaxTicks == 4
\* the calls of simulate() and the steps of 5 s the clock takes, in a run of
\* SpecExpiry; the changes of the tabs and of the form, in a run of SpecPage
MaxSubmits == 2
MaxWaits == 3
MaxChanges == 4

\* ------------------------------------------------------------ JavaScript values
\* Values are tagged records, so that values of different types compare unequal.
Undef == [t |-> "undefined"]
JNull == [t |-> "null"]
NaN == [t |-> "nan"]
JBool(b) == [t |-> "bool", b |-> b]
JNum(n) == [t |-> "num", n |-> n]
JStr(s) == [t |-> "str", s |-> s]
JArr(a) == [t |-> "arr", a |-> a]
JObj(o) == [t |-> "obj", o |-> o]
\* the outcome of an evaluation that raised an exception
Throw == [t |-> "throw"]

\* ToBoolean, as used by !x, x || y and if (x)
Truthy(v) ==
  CASE v.t \in {"undefined", "null", "nan"} -> FALSE
    [] v.t = "bool" -> v.b
    [] v.t = "num" -> v.n # 0
    [] v.t = "str" -> v.s # ""
    [] OTHER -> TRUE

\* The characters of the strings that the model's frames hold where a level or
\* a field of a level is read.
CharsOf == [s \in {"", "abc", "100", "101", "2", "0"} |->
  CASE s = "abc" -> <<"a", "b", "c">>
    [] s = "100" -> <<"1", "0", "0">>
    [] s = "101" -> <<"1", "0", "1">>
    [] s = "2" -> <<"2">>
    [] s = "0" -> <<"0">>
    [] OTHER -> <<>>]

\* v.k on a value that is neither null nor undefined, for a field name k that
\* is no built-in property of arrays or strings (data, asks, ts, ...)
Prop(v, k) ==
  IF v.t = "obj" /\ k \in DOMAIN v.o THEN v.o[k] ELSE Undef

\* v[i] on a value that is neither null nor undefined, for an index i counted
\* from 0: an element of an array, a character of a string; a number, a
\* boolean and the objects of the model's frames have no such property.
At(v, i) ==
  CASE v.t = "arr" -> IF i < Len(v.a) THEN v.a[i + 1] ELSE Undef
    [] v.t = "str" ->
         IF v.s \in DOMAIN CharsOf /\ i < Len(CharsOf[v.s])
         THEN JStr(CharsOf[v.s][i + 1]) ELSE Undef
    [] OTHER -> Undef

\* reading a property of null or undefined raises a TypeError
Nullish(v) == v.t \in {"undefined", "null"}

\* 'k' in v raises a TypeError unless v is an object (arrays are objects)
InThrows(v) == v.t \notin {"obj", "arr"}
HasKey(v, k) == v.t = "obj" /\ k \in DOMAIN v.o

\* The decimal strings the model's frames use, with the number each denotes.
NumericStrings == [s \in {"100", "101", "2", "0", "1", "1500000000"} |->
  CASE s = "100" -> 100 [] s = "101" -> 101 [] s = "2" -> 2 [] s = "1" -> 1
    [] s = "1500000000" -> 1500000000 [] OTHER -> 0]

\* parseFloat(v) converts v to a string and reads the decimal number it starts
\* with: a number stays itself, a string that starts with no number gives NaN,
\* an array is read through its first element (its string is its elements
\* joined by commas), and undefined, null, a boolean and an object give NaN.
RECURSIVE ParseFloat(_)
ParseFloat(v) ==
  CASE v.t = "num" -> v
    [] v.t = "str" -> IF v.s \in DOMAIN NumericStrings THEN JNum(NumericStrings[v.s]) ELSE NaN
    [] v.t = "arr" -> IF Len(v.a) = 0 THEN NaN ELSE ParseFloat(v.a[1])
    [] OTHER -> NaN

\* A text frame: ok says whether it is well-formed JSON, v is the value it encodes.
TextFrame(v) == [ok |-> TRUE, v |-> v]
BadTextFrame == [ok |-> FALSE, v |-> Undef]

\* JSON.parse(event.data)
JSONparse(text) == IF text.ok THEN text.v ELSE Throw

\* The strings of the model's frames that are JSON texts of something else than
\* a number, with the value each encodes.
JSONTexts == [s \in {"null", "[]", "[{\"asks\":[],\"bids\":[]}]", "{\"a\":[],\"b\":[]}"} |->
  CASE s = "null" -> JNull
    [] s = "[]" -> JArr(<<>>)
    [] s = "[{\"asks\":[],\"bids\":[]}]" ->
         JArr(<<JObj([asks |-> JArr(<<>>), bids |-> JArr(<<>>)])>>)
    [] OTHER -> JObj([a |-> JArr(<<>>), b |-> JArr(<<>>)])]

\* JSON.parse of a string found inside a decoded message (msg.data as a string);
\* a string that is no JSON text raises a SyntaxError.
JSONparseString(s) ==
  IF s \in DOMAIN NumericStrings THEN JNum(NumericStrings[s])
  ELSE IF s \in DOMAIN JSONTexts THEN JSONTexts[s]
  ELSE Throw

Min(a, b) == IF a <= b THEN a ELSE b

\* ------------------------------------------------------------ exchangeConfigs
Exchanges == {"OKX", "Bybit", "Deribit"}

url(exchange) ==
  CASE exchange = "OKX" -> "wss://ws.okx.com:8443/ws/v5/public"
    [] exchange = "Bybit" -> "wss://stream.bybit.com/v5/public/spot"
    [] exchange = "Deribit" -> "wss://www.deribit.com/ws/api/v2"

\* JSON.stringify of the subscription request: the text is represented by the
\* object it encodes, the symbol kept apart from the fixed parts of the strings.
subscriptionMessage(exchange, symbol) ==
  CASE exchange = "OKX" ->
         [op |-> "subscribe", args |-> <<[channel |-> "books", instId |-> symbol]>>]
    [] exchange = "Bybit" ->
         [op |-> "subscribe", args |-> <<<<"orderbook.50.", symbol>>>>]
    [] exchange = "Deribit" ->
         [jsonrpc |-> "2.0", id |-> 1, method |-> "public/subscribe",
          params |-> [channels |-> <<<<"book.", symbol, ".none.20.100ms">>>>]]

\* levels.map(...) raises a TypeError when levels is no array or a level is
\* null or undefined (level[0] is read)
LevelsThrow(levels) ==
  levels.t # "arr" \/ \E i \in 1..Len(levels.a) : Nullish(levels.a[i])

\* level => ({ price: parseFloat(level[0]), quantity: parseFloat(level[1]) })
ParsedLevels(a) ==
  [i \in 1..Len(a) |->
     [price |-> ParseFloat(At(a[i], 0)), quantity |-> ParseFloat(At(a[i], 1))]]

\* level => ({ price: level[0], quantity: level[1] })
RawLevels(a) ==
  [i \in 1..Len(a) |-> [price |-> At(a[i], 0), quantity |-> At(a[i], 1)]]

Take(a, n) == SubSeq(a, 1, Min(n, Len(a)))

\* levels.slice(0, n) raises a TypeError unless levels is an array or a string;
\* the slice of a string is a string, which has no map
SliceThrows(levels) == levels.t \notin {"arr", "str"}
Slice(levels, n) == IF levels.t = "arr" THEN JArr(Take(levels.a, n)) ELSE levels

Book(bids, asks, timestamp) ==
  [t |-> "book", bids |-> bids, asks |-> asks, timestamp |-> timestamp]

\* variant for C11: every topic of the model's frames
OrderbookTopics_any == {"orderbook.50.BTCUSDT", "publicTrade.BTCUSDT", ""}

\* the topics of the model's frames for which topic.indexOf('orderbook') is not -1
OrderbookTopics == {"orderbook.50.BTCUSDT"}

\* the levels of a side that Bybit's parseMessage keeps: slice(0, 50)
DepthCap == 50

\* exchangeConfigs.OKX.parseMessage; now is new Date().getTime()
parseOKX(msg, now) ==
  IF Nullish(msg) THEN Throw
  ELSE IF ~Truthy(Prop(msg, "data")) THEN JNull
  ELSE LET d == Prop(msg, "data")
           data == IF d.t = "str" THEN JSONparseString(d.s) ELSE d
       IN IF data = Throw THEN JNull
          ELSE IF data.t # "arr" \/ ~Truthy(At(data, 0)) THEN JNull
          ELSE LET d0 == At(data, 0)
               IN IF InThrows(d0) THEN JNull
                  ELSE IF ~HasKey(d0, "asks") \/ ~HasKey(d0, "bids") THEN JNull
                  ELSE IF LevelsThrow(d0.o.bids) \/ LevelsThrow(d0.o.asks) THEN JNull
                  ELSE Book(ParsedLevels(d0.o.bids.a), ParsedLevels(d0.o.asks.a), JNum(now))

\* exchangeConfigs.Bybit.parseMessage
parseBybit(msg, now) ==
  IF Nullish(msg) THEN Throw
  ELSE IF ~Truthy(Prop(msg, "data")) \/ Prop(msg, "topic").t # "str"
          \/ Prop(msg, "topic").s \notin OrderbookTopics THEN JNull
  ELSE LET d == Prop(msg, "data")
           data == IF d.t = "str" THEN JSONparseString(d.s) ELSE d
       IN IF data = Throw THEN JNull
          ELSE IF ~Truthy(data) THEN JNull
          ELSE IF InThrows(data) THEN JNull
          ELSE IF ~HasKey(data, "a") \/ ~HasKey(data, "b") THEN JNull
          ELSE IF SliceThrows(data.o.b) \/ LevelsThrow(Slice(data.o.b, DepthCap)) THEN JNull
          ELSE IF SliceThrows(data.o.a) \/ LevelsThrow(Slice(data.o.a, DepthCap)) THEN JNull
          ELSE Book(ParsedLevels(Slice(data.o.b, DepthCap).a), ParsedLevels(Slice(data.o.a, DepthCap).a),
                    IF Truthy(Prop(data, "ts")) THEN Prop(data, "ts") ELSE JNum(now))

\* exchangeConfigs.Deribit.parseMessage
parseDeribit(msg, now) ==
  IF Nullish(msg) THEN Throw
  ELSE IF Nullish(Prop(msg, "params")) THEN JNull
  ELSE IF ~Truthy(Prop(Prop(msg, "params"), "data")) THEN JNull
  ELSE LET data == Prop(Prop(msg, "params"), "data")
       IN IF Nullish(Prop(data, "bids")) \/ LevelsThrow(Prop(data, "bids")) THEN JNull
          ELSE IF Nullish(Prop(data, "asks")) \/ LevelsThrow(Prop(data, "asks")) THEN JNull
          ELSE Book(RawLevels(Prop(data, "bids").a), RawLevels(Prop(data, "asks").a),
                    IF Truthy(Prop(data, "timestamp")) THEN Prop(data, "timestamp")
                    ELSE JNum(now))

\* config.parseMessage(message) for the config of an exchange
parseMessage(exchange, msg, now) ==
  CASE exchange = "OKX" -> parseOKX(msg, now)
    [] exchange = "Bybit" -> parseBybit(msg, now)
    [] exchange = "Deribit" -> parseDeribit(msg, now)

\* ------------------------------------------------------------ WebSocketService
VARIABLES
  socket,             \* this.socket: 0 (null) or the id of a socket in sockets
  reconnectAttempts,  \* this.reconnectAttempts
  reconnectTimeout,   \* this.reconnectTimeout: 0 (null) or the handle of a timer
  currentExchange,    \* this.currentExchange, NullStr for null
  currentSymbol,      \* this.currentSymbol, NullStr for null
  messageCallback,    \* this.messageCallback, NullFn for null
  errorCallback,      \* this.errorCallback, NullFn for null
  sockets,            \* the WebSocket objects still alive: id -> socket
  timers,             \* the pending timers: handle -> delay in ms
  webSocketDefined,   \* whether new WebSocket(url) succeeds in this environment
  nSockets,           \* history: number of sockets constructed
  lastRun,            \* history: the last run of a message or error handler
  delayLog,           \* history: the delays scheduled since the consumer's last connect()
  api,                \* history: the consumer's last call, "none", "connect" or "disconnect"
  nConnects,          \* history: number of connect() calls of the consumer
  nFrames,            \* history: number of frames the exchanges have sent
  rawExchange,        \* the exchange whose parseMessage is applied, NullStr for none
  rawMessage,         \* the decoded message given to parseMessage
  receivedAt,         \* new Date().getTime() at that call
  normalized,         \* what parseMessage returned, and processOrderBookData's input
  orderBook,          \* what processOrderBookData returned
  reprocessed,        \* what processOrderBookData returned for orderBook
  stage,              \* "idle", "raw", "parsed", "processed", "reprocessed" or "simulated"
  form,               \* the OrderForm given to simulateOrder, NoForm for none
  simulation,         \* what simulateOrder returned, NoSimulation for nothing
  expiries,           \* useOrderSimulation: the pending timers that set simulation to null
  nSimulate,          \* history: number of calls of simulate()
  shown,              \* history: the call of simulate() that made simulation, 0 for none
  activeExchange,     \* OrderbookViewerPage: the state activeExchange
  activeSymbol,       \* OrderbookViewerPage: the state activeSymbol
  nChanges,           \* history: number of changes made on the page
  hookConnected,      \* useOrderBook: the state isConnected
  hookError,          \* useOrderBook: the state error, NullStr for null
  lastUpdateRef,      \* useOrderBook: lastUpdateRef.current
  pendingUpdateRef,   \* useOrderBook: pendingUpdateRef.current, JNull for null
  timeout,            \* debounce: the pending timer, its argument and when it is due
  clock,              \* Date.now()
  effects,            \* history: number of runs of the hook's effect, 0 before it is mounted
  received,           \* history: the last call of handleOrderBookUpdate and its outcome
  lastAccepted,       \* history: timestamp of the last book accepted for the target, 0 for none
  nUpdates,           \* history: number of calls of handleOrderBookUpdate
  erroring            \* the socket whose error event has run and whose close event is
                      \* next in the same task, 0 for none

mgr == <<socket, reconnectAttempts, reconnectTimeout, currentExchange, currentSymbol,
         messageCallback, errorCallback>>
vars == <<socket, reconnectAttempts, reconnectTimeout, currentExchange, currentSymbol,
          messageCallback, errorCallback, sockets, timers, webSocketDefined, nSockets,
          lastRun, delayLog, api, nConnects, nFrames>>
\* the variables beside the service's: the runs of parseMessage, processOrderBookData
\* and simulateOrder on their own, the hook, and the task of a failing socket
expiring == <<expiries, nSimulate, shown>>
page == <<activeExchange, activeSymbol, nChanges>>
simulator == <<form, simulation, expiring, page>>
hook == <<hookConnected, hookError, lastUpdateRef, pendingUpdateRef, timeout, clock, effects,
          received, lastAccepted, nUpdates>>
pipeline ==
  <<rawExchange, rawMessage, receivedAt, normalized, orderBook, reprocessed, stage, simulator,
    hook, erroring>>

\* variant for C8: one attempt more than the code allows
maxReconnectAttempts_six == 5 + 1

maxReconnectAttempts == 5

NullStr == "<null>"
NullFn == [f |-> "null"]
\* the closures of the consumer's n-th connect() call, and the default
\* () => {} that connect() makes when no onError is given
OnMessage(n) == [f |-> "onMessage", call |-> n]
OnError(n) == [f |-> "onError", call |-> n]
NoopFn(n) == [f |-> "noop", call |-> n]
\* marks a handler run that invoked no callback
NoCall == [f |-> "none"]

\* one symbol of each exchange's catalog (getAvailableSymbols)
Targets == {<<"OKX", "BTC-USDT">>, <<"Bybit", "ETHUSDT">>, <<"Deribit", "BTC-PERPETUAL">>}
\* new Date().getTime(), on a scale that fits a 32-bit integer
Times == {1700000000}

\* 2^n
RECURSIVE Pow2(_)
Pow2(n) == IF n = 0 THEN 1 ELSE 2 * Pow2(n - 1)

\* variant for C1: the delay without its 30 s ceiling
reconnectDelay_uncapped(attempts) == 1000 * Pow2(attempts)

\* Math.min(1000 * Math.pow(2, this.reconnectAttempts), 30000)
reconnectDelay(attempts) == Min(1000 * Pow2(attempts), 30000)

\* tms without the timer h: clearTimeout(h), and a timer that has fired
Cleared(tms, h) == [k \in DOMAIN tms \ {h} |-> tms[k]]

\* variant for C4: the existing socket is not closed
Closed_noop(socks, i) == socks

\* socket.close() on socket i of socks
Closed(socks, i) ==
  IF socks[i].readyState \in {"CONNECTING", "OPEN"}
  THEN [socks EXCEPT ![i].readyState = "CLOSING"]
  ELSE socks

\* A CLOSED socket that the manager no longer references fires no event and is
\* reachable from nothing: it is dropped from the state.
Collected(socks, cur) ==
  [i \in {k \in DOMAIN socks : socks[k].readyState # "CLOSED" \/ k = cur} |-> socks[i]]

\* an id or handle that none of the used ones has
Fresh(used) == CHOOSE k \in 1..(Cardinality(used) + 1) : k \notin used

\* variant for C7: the handle of the new timer is not stored
attemptReconnect_dropsHandle(att, h, tms) ==
  IF att >= maxReconnectAttempts
  THEN [attempts |-> att, handle |-> h, timers |-> tms, scheduled |-> <<>>]
  ELSE LET delay == reconnectDelay(att + 1)
           kept == IF h # 0 THEN Cleared(tms, h) ELSE tms
           new == Fresh(DOMAIN timers \cup {h, reconnectTimeout})
       IN [attempts |-> att + 1, handle |-> h,
           timers |-> [k \in DOMAIN kept \cup {new} |->
                         IF k = new THEN delay ELSE kept[k]],
           scheduled |-> <<delay>>]

\* variant for C33: the timer already pending is not cleared
attemptReconnect_keepsTimer(att, h, tms) ==
  IF att >= maxReconnectAttempts
  THEN [attempts |-> att, handle |-> h, timers |-> tms, scheduled |-> <<>>]
  ELSE LET delay == reconnectDelay(att + 1)
           new == Fresh(DOMAIN timers \cup {h, reconnectTimeout})
       IN [attempts |-> att + 1, handle |-> new,
           timers |-> [k \in DOMAIN tms \cup {new} |->
                         IF k = new THEN delay ELSE tms[k]],
           scheduled |-> <<delay>>]

\* attemptReconnect() run on the attempt count att, the handle h and the pending
\* timers tms: the values it leaves, and the delay it scheduled, if any.  The
\* handle setTimeout returns is none of those in use before or during the step.
attemptReconnect(att, h, tms) ==
  IF att >= maxReconnectAttempts
  THEN [attempts |-> att, handle |-> h, timers |-> tms, scheduled |-> <<>>]
  ELSE LET delay == reconnectDelay(att + 1)
           kept == IF h # 0 THEN Cleared(tms, h) ELSE tms
           new == Fresh(DOMAIN timers \cup {h, reconnectTimeout})
       IN [attempts |-> att + 1, handle |-> new,
           timers |-> [k \in DOMAIN kept \cup {new} |->
                         IF k = new THEN delay ELSE kept[k]],
           scheduled |-> <<delay>>]

\* new WebSocket(config.url) with its four handlers set.  exchange is the
\* exchange (and config) the handlers have captured; conn is the consumer
\* connect() call the socket is made for and handled the runs of its message
\* handler (history).
NewSocket(exchange, conn) ==
  [exchange |-> exchange, url |-> url(exchange), readyState |-> "CONNECTING",
   inbox |-> <<>>, sent |-> <<>>, conn |-> conn, handled |-> <<>>]

\* variant for C3: disconnect() leaves the callbacks in place
disconnect_keepsCallbacks(tms) ==
  [sockets |-> IF socket # 0 THEN Closed(sockets, socket) ELSE sockets,
   socket |-> 0,
   timers |-> IF reconnectTimeout # 0 THEN Cleared(tms, reconnectTimeout) ELSE tms,
   reconnectTimeout |-> 0,
   currentExchange |-> NullStr,
   currentSymbol |-> NullStr,
   messageCallback |-> messageCallback,
   errorCallback |-> errorCallback]

\* variant for C31: disconnect() leaves the pending timer alone
disconnect_keepsTimer(tms) ==
  [sockets |-> IF socket # 0 THEN Closed(sockets, socket) ELSE sockets,
   socket |-> 0,
   timers |-> tms,
   reconnectTimeout |-> reconnectTimeout,
   currentExchange |-> NullStr,
   currentSymbol |-> NullStr,
   messageCallback |-> NullFn,
   errorCallback |-> NullFn]

\* disconnect() run with tms pending: the values it leaves
disconnect(tms) ==
  [sockets |-> IF socket # 0 THEN Closed(sockets, socket) ELSE sockets,
   socket |-> 0,
   timers |-> IF reconnectTimeout # 0 THEN Cleared(tms, reconnectTimeout) ELSE tms,
   reconnectTimeout |-> 0,
   currentExchange |-> NullStr,
   currentSymbol |-> NullStr,
   messageCallback |-> NullFn,
   errorCallback |-> NullFn]

\* connect(exchange, symbol, onMessage, onError), run with tms pending (the
\* caller's own timer removed when a timer calls it); onError is NullFn when
\* the argument is undefined; baseLog is the delay history to extend and conn
\* the number of the consumer's connect() call this run belongs to (history).
connect(exchange, symbol, onMessage, onError, tms, baseLog, conn) ==
  LET d == disconnect(tms)
      socks1 == d.sockets
      tms1 == d.timers
      r == attemptReconnect(reconnectAttempts, d.reconnectTimeout, tms1)
      new == Fresh(DOMAIN sockets)
  IN /\ currentExchange' = exchange
     /\ currentSymbol' = symbol
     /\ messageCallback' = onMessage
     /\ errorCallback' = IF onError = NullFn THEN NoopFn(conn) ELSE onError
     /\ IF exchange \notin Exchanges
        THEN /\ socket' = d.socket
             /\ sockets' = Collected(socks1, d.socket)
             /\ reconnectTimeout' = d.reconnectTimeout
             /\ timers' = tms1
             /\ UNCHANGED <<reconnectAttempts, nSockets>>
             /\ delayLog' = baseLog
        ELSE IF ~webSocketDefined
        THEN /\ socket' = d.socket
             /\ sockets' = Collected(socks1, d.socket)
             /\ reconnectAttempts' = r.attempts
             /\ reconnectTimeout' = r.handle
             /\ timers' = r.timers
             /\ nSockets' = nSockets
             /\ delayLog' = baseLog \o r.scheduled
        ELSE /\ socket' = new
             /\ sockets' = Collected(
                  [i \in DOMAIN socks1 \cup {new} |->
                     IF i = new THEN NewSocket(exchange, conn) ELSE socks1[i]], new)
             /\ reconnectTimeout' = d.reconnectTimeout
             /\ timers' = tms1
             /\ nSockets' = nSockets + 1
             /\ UNCHANGED reconnectAttempts
             /\ delayLog' = baseLog

\* the consumer calls connect(exchange, symbol, onMessage, onError?)
Connect(exchange, symbol, withOnError) ==
  /\ nConnects' = nConnects + 1
  /\ api' = "connect"
  /\ connect(exchange, symbol, OnMessage(nConnects + 1),
             IF withOnError THEN OnError(nConnects + 1) ELSE NullFn, timers, <<>>,
             nConnects + 1)
  /\ UNCHANGED <<webSocketDefined, lastRun, nFrames>>
  /\ UNCHANGED pipeline

\* the consumer calls disconnect()
Disconnect ==
  /\ LET d == disconnect(timers)
     IN /\ sockets' = Collected(d.sockets, d.socket)
        /\ socket' = d.socket
        /\ timers' = d.timers
        /\ reconnectTimeout' = d.reconnectTimeout
        /\ currentExchange' = d.currentExchange
        /\ currentSymbol' = d.currentSymbol
        /\ messageCallback' = d.messageCallback
        /\ errorCallback' = d.errorCallback
  /\ api' = "disconnect"
  /\ UNCHANGED <<reconnectAttempts, webSocketDefined, nSockets, lastRun, delayLog,
                 nConnects, nFrames>>
  /\ UNCHANGED pipeline

\* this.socket !== null && this.socket.readyState === WebSocket.OPEN
isConnected == socket # 0 /\ sockets[socket].readyState = "OPEN"

\* the timer h fires: the callback given to setTimeout in attemptReconnect
TimerFires(h) ==
  /\ h \in DOMAIN timers
  /\ IF currentExchange # NullStr /\ currentSymbol # NullStr /\ messageCallback # NullFn
     THEN connect(currentExchange, currentSymbol, messageCallback, errorCallback,
                  Cleared(timers, h), delayLog, nConnects)
     ELSE /\ timers' = Cleared(timers, h)
          /\ UNCHANGED <<mgr, sockets, nSockets, delayLog>>
  /\ UNCHANGED <<webSocketDefined, lastRun, api, nConnects, nFrames>>
  /\ UNCHANGED pipeline

\* variant for C6: onopen does not reset the attempt count
onopen_noReset(exchange) ==
  [reconnectAttempts |-> reconnectAttempts,
   send |-> IF socket # 0 /\ currentSymbol # NullStr
            THEN <<subscriptionMessage(exchange, currentSymbol)>> ELSE <<>>]

\* socket.onopen of a socket made for the exchange: the attempt count it
\* leaves and what it sends on this.socket
onopen(exchange) ==
  [reconnectAttempts |-> 0,
   send |-> IF socket # 0 /\ currentSymbol # NullStr
            THEN <<subscriptionMessage(exchange, currentSymbol)>> ELSE <<>>]

\* socket i opens: it becomes OPEN and socket.onopen runs.  send() queues the
\* data on an OPEN socket, raises on a CONNECTING one and discards it otherwise.
SocketOpens(i) ==
  /\ i \in DOMAIN sockets
  /\ sockets[i].readyState = "CONNECTING"
  /\ reconnectAttempts' = onopen(sockets[i].exchange).reconnectAttempts
  /\ LET opened == [sockets EXCEPT ![i].readyState = "OPEN"]
         send == onopen(sockets[i].exchange).send
     IN sockets' =
          IF send # <<>> /\ opened[socket].readyState = "OPEN"
          THEN [opened EXCEPT ![socket].sent = @ \o send]
          ELSE opened
  /\ UNCHANGED <<socket, reconnectTimeout, currentExchange, currentSymbol, messageCallback,
                 errorCallback, timers, webSocketDefined, nSockets, lastRun, delayLog, api,
                 nConnects, nFrames>>
  /\ UNCHANGED pipeline

\* ------------------------------------------------------------ frames
\* The frames an exchange sends in the model: a text that is no JSON, a text
\* on which the parser fails, a subscription acknowledgment, and an order book
\* with one level a side.
AckFrame(exchange) ==
  CASE exchange = "OKX" ->
         TextFrame(JObj([event |-> JStr("subscribe"), connId |-> JStr("a1")]))
    [] exchange = "Bybit" ->
         TextFrame(JObj([success |-> JBool(TRUE), op |-> JStr("subscribe")]))
    [] exchange = "Deribit" ->
         TextFrame(JObj([jsonrpc |-> JStr("2.0"), id |-> JNum(1),
                         result |-> JArr(<<JStr("book")>>)]))

BookFrame(exchange) ==
  CASE exchange = "OKX" ->
         TextFrame(JObj([data |-> JArr(<<JObj(
           [asks |-> JArr(<<JArr(<<JStr("101"), JStr("2")>>)>>),
            bids |-> JArr(<<JArr(<<JStr("100"), JStr("2")>>)>>)])>>)]))
    [] exchange = "Bybit" ->
         TextFrame(JObj([topic |-> JStr("orderbook.50.BTCUSDT"), data |-> JObj(
           [a |-> JArr(<<JArr(<<JStr("101"), JStr("2")>>)>>),
            b |-> JArr(<<JArr(<<JStr("100"), JStr("2")>>)>>),
            ts |-> JNum(1600000000)])]))
    [] exchange = "Deribit" ->
         TextFrame(JObj([params |-> JObj([data |-> JObj(
           [asks |-> JArr(<<JArr(<<JNum(101), JNum(2)>>)>>),
            bids |-> JArr(<<JArr(<<JNum(100), JNum(2)>>)>>),
            timestamp |-> JNum(1600000000)])])]))

\* the JSON text null, on which every parseMessage raises a TypeError
NullFrame == TextFrame(JNull)

FramesOf(exchange) == {BadTextFrame, NullFrame, AckFrame(exchange), BookFrame(exchange)}

\* ------------------------------------------------------------ socket events
\* the exchange sends the frame on the open socket i: its message event is queued
FrameArrives(i, frame) ==
  /\ i \in DOMAIN sockets
  /\ sockets[i].readyState = "OPEN"
  /\ sockets' = [sockets EXCEPT ![i].inbox = Append(@, frame)]
  /\ nFrames' = nFrames + 1
  /\ UNCHANGED <<mgr, timers, webSocketDefined, nSockets, lastRun, delayLog, api, nConnects>>
  /\ UNCHANGED pipeline

\* variant for C10: the callback is invoked whatever parseMessage returned
onmessage_noNullCheck(exchange, frame, now) ==
  LET message == JSONparse(frame)
      parsedData == IF message = Throw THEN Throw ELSE parseMessage(exchange, message, now)
  IN IF parsedData # Throw /\ messageCallback # NullFn
     THEN [called |-> messageCallback, arg |-> parsedData]
     ELSE [called |-> NoCall, arg |-> Undef]

\* variant for C34: a frame that cannot be parsed is reported to onError
onmessage_reportsFailure(exchange, frame, now) ==
  LET message == JSONparse(frame)
      parsedData == IF message = Throw THEN Throw ELSE parseMessage(exchange, message, now)
  IN IF parsedData.t = "book" /\ messageCallback # NullFn
     THEN [called |-> messageCallback, arg |-> parsedData]
     ELSE IF parsedData = Throw /\ errorCallback # NullFn
     THEN [called |-> errorCallback, arg |-> Undef]
     ELSE [called |-> NoCall, arg |-> Undef]

\* socket.onmessage run on the frame: the callback it invokes (NoCall for
\* none) and the argument it passes
onmessage(exchange, frame, now) ==
  LET message == JSONparse(frame)
      parsedData == IF message = Throw THEN Throw ELSE parseMessage(exchange, message, now)
  IN IF parsedData.t = "book" /\ messageCallback # NullFn
     THEN [called |-> messageCallback, arg |-> parsedData]
     ELSE [called |-> NoCall, arg |-> Undef]

\* what a handler run of socket i leaves in lastRun: the handler, the connect()
\* call the socket was made for, the number of connect() calls so far, whether
\* the socket is this.socket, the consumer's last call, and the callback invoked
Run(h, i, called) ==
  [h |-> h, conn |-> sockets[i].conn, connects |-> nConnects, current |-> (i = socket),
   api |-> api, called |-> called]

\* the message event of the oldest queued frame of socket i is dispatched: the
\* handler runs if the socket is still OPEN, and the frame is dropped otherwise
MessageEvent(i, now) ==
  /\ i \in DOMAIN sockets
  /\ sockets[i].inbox # <<>>
  /\ LET frame == Head(sockets[i].inbox)
         r == onmessage(sockets[i].exchange, frame, now)
     IN IF sockets[i].readyState = "OPEN"
        THEN /\ sockets' = [sockets EXCEPT ![i].inbox = Tail(@),
                              ![i].handled = Append(@, [frame |-> frame,
                                                        called |-> r.called, arg |-> r.arg])]
             /\ lastRun' = Run("message", i, r.called)
        ELSE /\ sockets' = [sockets EXCEPT ![i].inbox = Tail(@)]
             /\ UNCHANGED lastRun
  /\ UNCHANGED <<mgr, timers, webSocketDefined, nSockets, delayLog, api, nConnects, nFrames>>
  /\ UNCHANGED pipeline

\* socket.onerror: the callback it invokes
\* variant for C30: the handler does not call back
onerror_silent == NoCall

onerror == IF errorCallback # NullFn THEN errorCallback ELSE NoCall

\* socket i closes, after an error event (withError) or without one: the
\* socket becomes CLOSED, socket.onerror runs if there was an error, then
\* socket.onclose runs.  The close event comes after the events of the frames
\* already received.
CloseTask(i, withError) ==
  /\ i \in DOMAIN sockets
  /\ sockets[i].readyState # "CLOSED"
  /\ sockets[i].inbox = <<>>
  /\ sockets' = Collected([sockets EXCEPT ![i].readyState = "CLOSED"], socket)
  /\ lastRun' = IF withError THEN Run("error", i, onerror) ELSE lastRun
  /\ LET r == attemptReconnect(reconnectAttempts, reconnectTimeout, timers)
     IN /\ reconnectAttempts' = r.attempts
        /\ reconnectTimeout' = r.handle
        /\ timers' = r.timers
        /\ delayLog' = delayLog \o r.scheduled
  /\ UNCHANGED <<socket, currentExchange, currentSymbol, messageCallback, errorCallback,
                 webSocketDefined, nSockets, api, nConnects, nFrames>>

SocketCloses(i, withError) == CloseTask(i, withError) /\ UNCHANGED pipeline

\* The same task in two steps: the error event of socket i, whose handler
\* onerror runs on its own, and then the close event, whose handler onclose
\* runs before anything else does.
ErrorEvent(i) ==
  /\ erroring = 0
  /\ i \in DOMAIN sockets
  /\ sockets[i].readyState # "CLOSED"
  /\ sockets[i].inbox = <<>>
  /\ lastRun' = Run("error", i, onerror)
  /\ erroring' = i
  /\ UNCHANGED <<socket, reconnectAttempts, reconnectTimeout, currentExchange, currentSymbol,
                 messageCallback, errorCallback, sockets, timers, webSocketDefined, nSockets,
                 delayLog, api, nConnects, nFrames>>
  /\ UNCHANGED <<rawExchange, rawMessage, receivedAt, normalized, orderBook, reprocessed, stage,
                 simulator, hook>>

CloseEvent ==
  /\ erroring # 0
  /\ CloseTask(erroring, FALSE)
  /\ erroring' = 0
  /\ UNCHANGED <<rawExchange, rawMessage, receivedAt, normalized, orderBook, reprocessed, stage,
                 simulator, hook>>

\* ------------------------------------------------------------ processOrderBookData
\* JavaScript numbers that are no integers: the quotient n / d in lowest terms
\* (d > 0), and the infinities and NaN that a division by zero gives.  The
\* rounding of floating point is not modelled.
RECURSIVE GCD(_, _)
GCD(a, b) == IF b = 0 THEN a ELSE GCD(b, a % b)
Abs(n) == IF n < 0 THEN 0 - n ELSE n
Ratio(n, d) ==
  LET g == GCD(Abs(n), Abs(d))
      sgn == IF d < 0 THEN 0 - 1 ELSE 1
  IN [t |-> "ratio", num |-> (sgn * n) \div g, den |-> (sgn * d) \div g]
Infinity(sign) == [t |-> "inf", sign |-> sign]

\* (n / d) * 100 for integers n and d
PercentOf(n, d) ==
  IF d # 0 THEN Ratio(100 * n, d)
  ELSE IF n > 0 THEN Infinity(1)
  ELSE IF n < 0 THEN Infinity(0 - 1)
  ELSE NaN

Max(a, b) == IF a >= b THEN a ELSE b

\* variant for C16: both sides sorted with the comparator of the asks
sort_ascendingOnly(levels, descending) ==
  LET before[i \in 1..Len(levels)] ==
        Cardinality({j \in 1..Len(levels) :
          \/ levels[j].price.n < levels[i].price.n
          \/ levels[j].price.n = levels[i].price.n /\ j < i})
  IN [k \in 1..Len(levels) |-> CHOOSE i \in 1..Len(levels) : before[i] = k - 1]

\* variant for C20: levels of one price change places
sort_unstable(levels, descending) ==
  LET before[i \in 1..Len(levels)] ==
        Cardinality({j \in 1..Len(levels) :
          \/ descending /\ levels[j].price.n > levels[i].price.n
          \/ ~descending /\ levels[j].price.n < levels[i].price.n
          \/ levels[j].price.n = levels[i].price.n /\ j > i})
  IN [k \in 1..Len(levels) |-> CHOOSE i \in 1..Len(levels) : before[i] = k - 1]

\* [...levels].sort(compare) with (a, b) => b.price - a.price (descending) or
\* (a, b) => a.price - b.price: the indices of levels in sorted order; before[i]
\* counts the levels that come before level i.  The sort is stable: levels of
\* one price keep their order.  Prices are numbers.
sort(levels, descending) ==
  LET before[i \in 1..Len(levels)] ==
        Cardinality({j \in 1..Len(levels) :
          \/ descending /\ levels[j].price.n > levels[i].price.n
          \/ ~descending /\ levels[j].price.n < levels[i].price.n
          \/ levels[j].price.n = levels[i].price.n /\ j < i})
  IN [k \in 1..Len(levels) |-> CHOOSE i \in 1..Len(levels) : before[i] = k - 1]

\* variant for C18: the running total is assigned before the quantity is added
RunningTotals_late(levels, order) ==
  [k \in 1..Len(order) |->
     IF k = 1 THEN 0
     ELSE LET prev[m \in 1..Len(order)] ==
                IF m = 1 THEN levels[order[1]].quantity.n
                ELSE prev[m - 1] + levels[order[m]].quantity.n
          IN prev[k - 1]]

\* bidTotal += bid.quantity; bid.total = bidTotal, along the levels in order
RunningTotals(levels, order) ==
  LET total[k \in 1..Len(order)] ==
        IF k = 1 THEN levels[order[1]].quantity.n
        ELSE total[k - 1] + levels[order[k]].quantity.n
  IN [k \in 1..Len(order) |-> total[k]]

\* variant for C19: the smaller of the two totals
maxTotal_min(bidTotal, askTotal) == Min(bidTotal, askTotal)

\* Math.max(bidTotal, askTotal)
maxTotal(bidTotal, askTotal) == Max(bidTotal, askTotal)

\* bid.total ? (bid.total / maxTotal) * 100 : 0
percentage(total, max) == IF total # 0 THEN PercentOf(total, max) ELSE Ratio(0, 1)

\* One side of the book: the first 15 levels in sorted order, each with its
\* running total; order holds their indices in the input.
Side(levels, descending) ==
  LET order == Take(sort(levels, descending), 15)
  IN [order |-> order, totals |-> RunningTotals(levels, order)]

SideTotal(side) == IF Len(side.order) = 0 THEN 0 ELSE side.totals[Len(side.totals)]

\* the levels of a side as processOrderBookData leaves them
AggregatedLevels(levels, side, max) ==
  [k \in 1..Len(side.order) |->
     [price |-> levels[side.order[k]].price,
      quantity |-> levels[side.order[k]].quantity,
      total |-> JNum(side.totals[k]),
      percentage |-> percentage(side.totals[k], max)]]

\* processOrderBookData(rawOrderBook): the book it returns
processOrderBookData(rawOrderBook) ==
  LET bids == Side(rawOrderBook.bids, TRUE)
      asks == Side(rawOrderBook.asks, FALSE)
      max == maxTotal(SideTotal(bids), SideTotal(asks))
  IN Book(AggregatedLevels(rawOrderBook.bids, bids, max),
          AggregatedLevels(rawOrderBook.asks, asks, max),
          rawOrderBook.timestamp)

\* The levels of a side of rawOrderBook after the call: [...levels] copies the
\* array and not the levels, so a level that is among the 15 kept has got the
\* total and the percentage assigned to it; the array itself is as it was.
LevelsAfter(levels, aggregated, order) ==
  [i \in 1..Len(levels) |->
     IF \E k \in 1..Len(order) : order[k] = i
     THEN aggregated[CHOOSE k \in 1..Len(order) : order[k] = i]
     ELSE levels[i]]

\* rawOrderBook as processOrderBookData(rawOrderBook) leaves it
rawOrderBookAfter(rawOrderBook) ==
  LET out == processOrderBookData(rawOrderBook)
  IN Book(LevelsAfter(rawOrderBook.bids, out.bids, Side(rawOrderBook.bids, TRUE).order),
          LevelsAfter(rawOrderBook.asks, out.asks, Side(rawOrderBook.asks, FALSE).order),
          rawOrderBook.timestamp)

\* ------------------------------------------------------------ simulateOrder
\* The arithmetic of JavaScript numbers on ratios, the infinities and NaN.
Num(n) == Ratio(n, 1)
IsNaN(a) == a.t = "nan"
SignOf(a) == IF a.t = "inf" THEN a.sign ELSE IF a.num > 0 THEN 1 ELSE IF a.num < 0 THEN 0 - 1 ELSE 0

\* a / b
Quotient(a, b) ==
  IF IsNaN(a) \/ IsNaN(b) THEN NaN
  ELSE IF a.t = "inf"
    THEN IF b.t = "inf" THEN NaN ELSE Infinity(IF SignOf(b) < 0 THEN 0 - a.sign ELSE a.sign)
  ELSE IF b.t = "inf" THEN Num(0)
  ELSE IF b.num = 0
    THEN IF a.num = 0 THEN NaN ELSE Infinity(SignOf(a))
  ELSE Ratio(a.num * b.den, a.den * b.num)

\* a * b
Product(a, b) ==
  IF IsNaN(a) \/ IsNaN(b) THEN NaN
  ELSE IF a.t = "inf" \/ b.t = "inf"
    THEN IF SignOf(a) * SignOf(b) = 0 THEN NaN ELSE Infinity(SignOf(a) * SignOf(b))
  ELSE Ratio(a.num * b.num, a.den * b.den)

\* a - b
Difference(a, b) ==
  IF IsNaN(a) \/ IsNaN(b) THEN NaN
  ELSE IF a.t = "inf"
    THEN IF b.t = "inf" /\ b.sign = a.sign THEN NaN ELSE a
  ELSE IF b.t = "inf" THEN Infinity(0 - b.sign)
  ELSE Ratio(a.num * b.den - b.num * a.den, a.den * b.den)

\* a < b and a >= b; both are false when a or b is NaN
Less(a, b) ==
  /\ ~IsNaN(a) /\ ~IsNaN(b)
  /\ IF a.t = "inf" THEN a.sign < 0 /\ ~(b.t = "inf" /\ b.sign < 0)
     ELSE IF b.t = "inf" THEN b.sign > 0
     ELSE a.num * b.den < b.num * a.den
AtLeast(a, b) == ~IsNaN(a) /\ ~IsNaN(b) /\ ~Less(a, b)

\* Math.max(a, b), Math.min(a, b)
MathMax(a, b) == IF IsNaN(a) \/ IsNaN(b) THEN NaN ELSE IF Less(a, b) THEN b ELSE a
MathMin(a, b) == IF IsNaN(a) \/ IsNaN(b) THEN NaN ELSE IF Less(b, a) THEN b ELSE a

\* OrderForm; the exchange and the symbol are not read by simulateOrder
OrderForm(type, side, price, quantity, delay) ==
  [exchange |-> "OKX", symbol |-> "BTC-USDT", type |-> type, side |-> side,
   price |-> price, quantity |-> quantity, delay |-> delay]

\* variant for C22: the result of the first return with active set
Inactive_active(orderForm) ==
  [form |-> orderForm, fillPercentage |-> Num(0), marketImpact |-> Num(0),
   slippage |-> Num(0), active |-> TRUE]

\* the result returned when a side of the book is empty
Inactive(orderForm) ==
  [form |-> orderForm, fillPercentage |-> Num(0), marketImpact |-> Num(0),
   slippage |-> Num(0), active |-> FALSE]

\* variant for C23: a level is taken whole
fillQuantity_whole(remainingQuantity, level) == level.quantity.n

\* Math.min(remainingQuantity, level.quantity)
fillQuantity(remainingQuantity, level) == Min(remainingQuantity, level.quantity.n)

\* The loop over the levels: what is left of the quantity, the value of what
\* was filled and the number of levels visited before the quantity ran out.
Fill(levels, quantity) ==
  LET walk[k \in 0..Len(levels)] ==
        IF k = 0
        THEN [remainingQuantity |-> quantity, totalValue |-> 0, filledLevels |-> 0]
        ELSE LET before == walk[k - 1]
             IN IF before.remainingQuantity <= 0 THEN before
                ELSE [remainingQuantity |->
                        before.remainingQuantity
                        - fillQuantity(before.remainingQuantity, levels[k]),
                      totalValue |->
                        before.totalValue
                        + fillQuantity(before.remainingQuantity, levels[k]) * levels[k].price.n,
                      filledLevels |-> before.filledLevels + 1]
  IN walk[Len(levels)]

\* ((form.quantity - remainingQuantity) / form.quantity) * 100
fillPercentage(quantity, remainingQuantity) ==
  Product(Quotient(Num(quantity - remainingQuantity), Num(quantity)), Num(100))

\* slippage of either branch: the average price against the reference price
slippage(side, average, reference) ==
  IF side = "Buy"
  THEN Product(Quotient(Difference(average, reference), reference), Num(100))
  ELSE Product(Quotient(Difference(reference, average), reference), Num(100))

\* variant for C27: the levels walked are not counted against the side
marketImpact_perLevel(filledLevels, levels) == Product(Num(filledLevels), Num(100))

\* (filledLevels / levels.length) * 100
marketImpact(filledLevels, levels) ==
  Product(Quotient(Num(filledLevels), Num(Len(levels))), Num(100))

\* the branch of form.type === 'Market'
MarketOrder(orderForm, book) ==
  LET levels == IF orderForm.side = "Buy" THEN book.asks ELSE book.bids
      filled == Fill(levels, orderForm.quantity.n)
      averagePrice ==
        Quotient(Num(filled.totalValue),
                 Num(orderForm.quantity.n - filled.remainingQuantity))
      bestPrice == Num(levels[1].price.n)
  IN [form |-> orderForm,
      fillPercentage |-> fillPercentage(orderForm.quantity.n, filled.remainingQuantity),
      marketImpact |-> marketImpact(filled.filledLevels, levels),
      slippage |-> MathMax(Num(0), slippage(orderForm.side, averagePrice, bestPrice)),
      timeToFill |-> "Immediate",
      active |-> TRUE]

\* form.price || 0
orderPrice(orderForm) == IF Truthy(orderForm.price) THEN orderForm.price.n ELSE 0

\* variant for C24: every level of the side is fillable
fillableLevels_all(side, levels, limit) == levels

\* levels.filter(level => level.price <= orderPrice), >= for a Sell order
fillableLevels(side, levels, limit) ==
  IF side = "Buy"
  THEN SelectSeq(levels, LAMBDA level : level.price.n <= limit)
  ELSE SelectSeq(levels, LAMBDA level : level.price.n >= limit)

\* The loop that finds the position: the index, from 0, of the first level that
\* the order price is better than, and 0 when there is none.
position(side, relevantLevels, limit) ==
  LET beaten == {i \in 1..Len(relevantLevels) :
                   \/ side = "Buy" /\ limit > relevantLevels[i].price.n
                   \/ side = "Sell" /\ limit < relevantLevels[i].price.n}
  IN IF beaten = {} THEN 0 ELSE (CHOOSE i \in beaten : \A j \in beaten : i <= j) - 1

\* variant for C25: the resting order is given the scale of a market order
restingImpact_full(place, depth) ==
  Product(Difference(Num(1), Quotient(Num(place), Num(depth))), Num(100))

\* (1 - (position / depth)) * 50
restingImpact(place, depth) ==
  Product(Difference(Num(1), Quotient(Num(place), Num(depth))), Num(50))

\* fillableLevels.length / levels.length * 75
filledImpact(fillable, levels) ==
  Product(Quotient(Num(Len(fillable)), Num(Len(levels))), Num(75))

\* variant for C28: the bucket above 75 takes 75 in
estimateTimeToFill_from75(delay, percent) ==
  LET delayMs == IF delay = "5s" THEN 5000 ELSE IF delay = "10s" THEN 10000 ELSE 30000
      seconds == ToString(delayMs \div 1000) \o "s"
  IN IF delay = "immediate"
     THEN IF AtLeast(percent, Num(100)) THEN "Immediate" ELSE "Partial fill"
     ELSE IF AtLeast(percent, Num(100)) THEN "~" \o seconds
     ELSE IF AtLeast(percent, Num(75)) THEN ">" \o seconds
     ELSE IF Less(Num(50), percent) THEN ">>" \o seconds
     ELSE IF Less(Num(0), percent) THEN ">>>" \o seconds
     ELSE "Unlikely to fill"

estimateTimeToFill(delay, percent) ==
  LET delayMs == IF delay = "5s" THEN 5000 ELSE IF delay = "10s" THEN 10000 ELSE 30000
      seconds == ToString(delayMs \div 1000) \o "s"
  IN IF delay = "immediate"
     THEN IF AtLeast(percent, Num(100)) THEN "Immediate" ELSE "Partial fill"
     ELSE IF AtLeast(percent, Num(100)) THEN "~" \o seconds
     ELSE IF Less(Num(75), percent) THEN ">" \o seconds
     ELSE IF Less(Num(50), percent) THEN ">>" \o seconds
     ELSE IF Less(Num(0), percent) THEN ">>>" \o seconds
     ELSE "Unlikely to fill"

\* the branch of a Limit order
LimitOrder(orderForm, book) ==
  LET levels == IF orderForm.side = "Buy" THEN book.asks ELSE book.bids
      fillable == fillableLevels(orderForm.side, levels, orderPrice(orderForm))
      filled == Fill(fillable, orderForm.quantity.n)
      percent == fillPercentage(orderForm.quantity.n, filled.remainingQuantity)
      relevantLevels == IF orderForm.side = "Buy" THEN book.bids ELSE book.asks
      impact ==
        IF Less(percent, Num(100))
        THEN restingImpact(position(orderForm.side, relevantLevels, orderPrice(orderForm)),
                           Len(relevantLevels))
        ELSE filledImpact(fillable, levels)
      taken == orderForm.quantity.n - filled.remainingQuantity
      averageFilledPrice ==
        Quotient(Num(filled.totalValue), Num(IF taken # 0 THEN taken ELSE 1))
  IN [form |-> orderForm,
      fillPercentage |-> percent,
      marketImpact |-> MathMin(Num(100), impact),
      slippage |->
        MathMax(Num(0),
                slippage(orderForm.side, averageFilledPrice, Num(orderPrice(orderForm)))),
      timeToFill |-> estimateTimeToFill(orderForm.delay, percent),
      active |-> TRUE]

\* simulateOrder(form, orderBook)
simulateOrder(orderForm, book) ==
  IF ~Truthy(book) \/ Len(book.bids) = 0 \/ Len(book.asks) = 0 THEN Inactive(orderForm)
  ELSE IF orderForm.type = "Market" THEN MarketOrder(orderForm, book)
  ELSE LimitOrder(orderForm, book)

\* ------------------------------------------------------------ raw messages
\* What an exchange may put where a level is expected: a pair of decimal
\* strings (OKX, Bybit) or of numbers (Deribit), a price that is no number, a
\* level without quantity, null, and a string.
LevelValues ==
  {JArr(<<JStr("100"), JStr("2")>>), JArr(<<JStr("101"), JStr("2")>>),
   JArr(<<JNum(100), JNum(2)>>), JArr(<<JNum(101), JNum(0)>>),
   JArr(<<JStr("abc"), JStr("2")>>), JArr(<<JStr("100")>>), JNull, JStr("100")}

\* a side of LongDepth levels, the i-th with price i
LongSide == JArr([i \in 1..LongDepth |-> JArr(<<JNum(i), JNum(1)>>)])

\* What may stand where a side is expected: arrays of up to depth levels, the
\* long side, and values that are no arrays.
Sides(depth) ==
  {JArr(levels) : levels \in UNION {[1..n -> LevelValues] : n \in 0..depth}}
  \cup {JNull, JStr("abc"), JNum(5)}

\* the two sides of a payload: one of them of up to MaxDepth levels, or one or
\* both of them long
SidePairs ==
  (Sides(MaxDepth) \X Sides(1)) \cup (Sides(1) \X Sides(MaxDepth))
  \cup {<<LongSide, JArr(<<>>)>>, <<JArr(<<>>), LongSide>>, <<LongSide, LongSide>>}

\* the timestamp field of a payload: absent, a number, zero, a decimal string
Stamps == {Undef, JNum(1600000000), JNum(0), JStr("1500000000")}

\* the object with the fields of fields whose value is not undefined
Fields(fields) ==
  JObj([k \in {f \in DOMAIN fields : fields[f] # Undef} |-> fields[k]])

\* the order-book messages of each exchange
BookMessage(exchange, bids, asks, stamp) ==
  CASE exchange = "OKX" ->
         JObj([arg |-> JObj([channel |-> JStr("books")]),
               data |-> JArr(<<Fields([asks |-> asks, bids |-> bids, ts |-> stamp])>>)])
    [] exchange = "Bybit" ->
         JObj([topic |-> JStr("orderbook.50.BTCUSDT"), type |-> JStr("snapshot"),
               data |-> Fields([a |-> asks, b |-> bids, ts |-> stamp])])
    [] exchange = "Deribit" ->
         JObj([method |-> JStr("subscription"),
               params |-> JObj([channel |-> JStr("book"),
                                data |-> Fields([asks |-> asks, bids |-> bids,
                                                 timestamp |-> stamp])])])

BookMessages(exchange) ==
  {BookMessage(exchange, pair[1], pair[2], stamp) : pair \in SidePairs, stamp \in Stamps}

\* one well-formed order-book message of an exchange
SampleBook(exchange) ==
  IF exchange = "Deribit"
  THEN BookMessage(exchange, JArr(<<JArr(<<JNum(100), JNum(2)>>)>>),
                   JArr(<<JArr(<<JNum(101), JNum(2)>>)>>), JNum(1600000000))
  ELSE BookMessage(exchange, JArr(<<JArr(<<JStr("100"), JStr("2")>>)>>),
                   JArr(<<JArr(<<JStr("101"), JStr("2")>>)>>), JNum(1600000000))

\* The messages of an exchange that are no order book: the acknowledgment of
\* the subscription and the answer to a ping.
Acknowledgment(exchange) ==
  CASE exchange = "OKX" ->
         JObj([event |-> JStr("subscribe"), arg |-> JObj([channel |-> JStr("books")]),
               connId |-> JStr("a1")])
    [] exchange = "Bybit" ->
         JObj([success |-> JBool(TRUE), ret_msg |-> JStr("subscribe"),
               op |-> JStr("subscribe")])
    [] exchange = "Deribit" ->
         JObj([jsonrpc |-> JStr("2.0"), id |-> JNum(1), result |-> JArr(<<JStr("book")>>)])

Heartbeat(exchange) ==
  CASE exchange = "OKX" -> JObj([event |-> JStr("pong")])
    [] exchange = "Bybit" ->
         JObj([success |-> JBool(TRUE), ret_msg |-> JStr("pong"), op |-> JStr("ping")])
    [] exchange = "Deribit" ->
         JObj([jsonrpc |-> JStr("2.0"), method |-> JStr("heartbeat"),
               params |-> JObj([type |-> JStr("test_request")])])

\* a message of Bybit with an order-book payload under another topic, under a
\* topic that is no string, or under none
OffTopic ==
  {Fields([topic |-> topic, data |-> SampleBook("Bybit").o.data]) :
     topic \in {JStr("publicTrade.BTCUSDT"), JStr(""), JNum(5), JNull, Undef}}

NonBookMessages(exchange) ==
  {Acknowledgment(e) : e \in Exchanges} \cup {Heartbeat(e) : e \in Exchanges}
  \cup {SampleBook(e) : e \in Exchanges \ {exchange}}
  \cup (IF exchange = "Bybit" THEN OffTopic ELSE {})

\* Decoded JSON values of other shapes: what JSON.parse can return that is no
\* object, and envelopes whose data is not what the exchange sends.
Scalars ==
  {JNull, JBool(TRUE), JBool(FALSE), JNum(0), JNum(5), JStr(""), JStr("abc"), JStr("100"),
   JStr("null"), JStr("[]"), JStr("[{\"asks\":[],\"bids\":[]}]"), JStr("{\"a\":[],\"b\":[]}"),
   JArr(<<>>), JArr(<<JNum(5)>>), JArr(<<JNull>>), JArr(<<JStr("abc")>>),
   JObj([asks |-> JNum(5)]), JObj([a |-> JNum(5)])}

Malformed ==
  Scalars
  \cup {JObj([data |-> v]) : v \in Scalars}
  \cup {JObj([data |-> JArr(<<v>>)]) : v \in Scalars}
  \cup {JObj([topic |-> JStr("orderbook.50.BTCUSDT"), data |-> v]) : v \in Scalars}
  \cup {JObj([params |-> v]) : v \in Scalars}
  \cup {JObj([params |-> JObj([data |-> v])]) : v \in Scalars}

RawMessages(exchange) ==
  BookMessages(exchange) \cup NonBookMessages(exchange) \cup Malformed

\* ------------------------------------------------------------ input books
\* OrderLevel { price: number; quantity: number } as parseMessage makes it
Level(price, quantity) == [price |-> JNum(price), quantity |-> JNum(quantity)]

Prices == {100, 101, 102}
Quantities == {0, 1, 2}

\* the sides of up to depth levels, in any order of prices
BookSides(depth) ==
  UNION {[1..n -> {Level(p, q) : p \in Prices, q \in Quantities}] : n \in 0..depth}

\* Sides of 14 to DeepLevels levels: prices rising, falling, in an order that is
\* neither, and with prices that repeat.
DeepSides ==
  UNION {{[i \in 1..n |-> Level(100 + i, 1 + (i % 3))],
          [i \in 1..n |-> Level(200 - i, i % 2)],
          [i \in 1..n |-> Level(100 + ((7 * i) % 19), 1 + (i % 2))],
          [i \in 1..n |-> Level(100 + (i % 5), i % 3)]} : n \in 14..DeepLevels}

\* the books given to processOrderBookData: one side of up to MaxLevels levels
\* and the other of at most one, or one or both sides deep
Books ==
  {Book(pair[1], pair[2], JNum(1600000000)) :
     pair \in (BookSides(MaxLevels) \X BookSides(1)) \cup (BookSides(1) \X BookSides(MaxLevels))
              \cup (DeepSides \X BookSides(1)) \cup (BookSides(1) \X DeepSides)
              \cup (DeepSides \X DeepSides)}

\* ------------------------------------------------------------ order forms
NoForm == [type |-> "none"]
NoSimulation == [active |-> "none"]

OrderTypes == {"Market", "Limit"}
OrderSides == {"Buy", "Sell"}
DelayOptions == {"immediate", "5s", "10s", "30s"}
FormQuantities == {2, 4, 5}
\* the limit prices: unset, below, at, between and above the prices of the levels
FormPrices == {JNull, JNum(99), JNum(100), JNum(101), JNum(102)}

\* the forms given to simulateOrder; the price of a Market order is not set
OrderForms ==
  {OrderForm("Market", side, JNull, JNum(quantity), delay) :
     side \in OrderSides, quantity \in FormQuantities, delay \in DelayOptions}
  \cup {OrderForm("Limit", fields[1], fields[2], JNum(fields[3]), fields[4]) :
          fields \in OrderSides \X FormPrices \X FormQuantities \X DelayOptions}

\* the sides of the books given to simulateOrder, in any order of prices
SimulatedSides(depth) ==
  UNION {[1..n -> {Level(p, q) : p \in {100, 101}, q \in Quantities}] : n \in 0..depth}

\* the books given to simulateOrder: one side of up to MaxSimulated levels and
\* the other of at most one, and no book
SimulatedBooks ==
  {Book(pair[1], pair[2], JNum(1600000000)) :
     pair \in (SimulatedSides(MaxSimulated) \X SimulatedSides(1))
              \cup (SimulatedSides(1) \X SimulatedSides(MaxSimulated))}
  \cup {JNull}

\* ------------------------------------------------------------ parseMessage and
\* processOrderBookData on their own
\* config.parseMessage(message) of the exchange's config
ParseMessage ==
  /\ stage = "raw"
  /\ normalized' = parseMessage(rawExchange, rawMessage, receivedAt)
  /\ stage' = "parsed"
  /\ UNCHANGED <<rawExchange, rawMessage, receivedAt, orderBook, reprocessed, simulator, hook, erroring>>
  /\ UNCHANGED vars

\* OrderBook { bids: OrderLevel[]; asks: OrderLevel[]; timestamp }: every price
\* and quantity is a number other than NaN
IsOrderBook(book) ==
  /\ book.t = "book"
  /\ \A i \in 1..Len(book.bids) : book.bids[i].price.t = "num" /\ book.bids[i].quantity.t = "num"
  /\ \A i \in 1..Len(book.asks) : book.asks[i].price.t = "num" /\ book.asks[i].quantity.t = "num"

\* setOrderBook(processOrderBookData(data)) for the book parseMessage returned;
\* the call assigns to the levels of its argument.  A book with a price or a
\* quantity that is no number is not followed further: the order in which sort
\* leaves levels whose comparison gives NaN is up to the implementation.
ProcessOrderBook ==
  /\ stage = "parsed"
  /\ IsOrderBook(normalized)
  /\ orderBook' = processOrderBookData(normalized)
  /\ normalized' = rawOrderBookAfter(normalized)
  /\ stage' = "processed"
  /\ UNCHANGED <<rawExchange, rawMessage, receivedAt, reprocessed, simulator, hook, erroring>>
  /\ UNCHANGED vars

\* processOrderBookData(orderBook) for the book the first call returned; its
\* levels are the levels of the first call's argument that were kept
ProcessAgain ==
  /\ stage = "processed"
  /\ reprocessed' = processOrderBookData(orderBook)
  /\ orderBook' = rawOrderBookAfter(orderBook)
  /\ normalized' =
       Book(LevelsAfter(normalized.bids, rawOrderBookAfter(orderBook).bids,
                        Side(normalized.bids, TRUE).order),
            LevelsAfter(normalized.asks, rawOrderBookAfter(orderBook).asks,
                        Side(normalized.asks, FALSE).order),
            normalized.timestamp)
  /\ stage' = "reprocessed"
  /\ UNCHANGED <<rawExchange, rawMessage, receivedAt, simulator, hook, erroring>>
  /\ UNCHANGED vars

\* simulateOrder(form, orderBook) for the book the hook holds
Simulate ==
  /\ stage = "processed"
  /\ form # NoForm
  /\ simulation' = simulateOrder(form, orderBook)
  /\ stage' = "simulated"
  /\ UNCHANGED <<rawExchange, rawMessage, receivedAt, normalized, orderBook, reprocessed, form,
                 expiring, page, hook, erroring>>
  /\ UNCHANGED vars

\* ------------------------------------------------------------ useOrderBook
DEFAULT_ORDERBOOK == Book(<<>>, <<>>, JNum(0))
UPDATE_THROTTLE == 300
NoTimeout == [due |-> 0]
NoUpdate == [outcome |-> "none"]
\* the rest of the model's state, which the hook's steps leave alone
beside ==
  <<rawExchange, rawMessage, receivedAt, normalized, reprocessed, stage, simulator, erroring>>

\* the books the service may hand to the hook's callback at a time: stamped by
\* the exchange up to 200 ms before (OKX's are stamped on receipt)
BookAt(stamp) == Book(<<Level(100, 1)>>, <<Level(101, 2)>>, JNum(stamp))
Updates(now) == {BookAt(now - 200), BookAt(now - 100), BookAt(now), JNull}

\* The effect of the hook, at mount and when exchange or symbol changes (the
\* cleanup of the run before it, WebSocketService.disconnect(), and
\* WebSocketService.connect() are steps of the service); the timer of debounce
\* is not cleared.
Effect ==
  /\ hookError' = NullStr
  /\ hookConnected' = FALSE
  /\ pendingUpdateRef' = JNull
  /\ lastUpdateRef' = 0
  /\ effects' = effects + 1
  /\ lastAccepted' = 0
  /\ UNCHANGED <<orderBook, timeout, clock, received, nUpdates>>
  /\ UNCHANGED beside
  /\ UNCHANGED vars

\* handleOrderBookUpdate(data), the messageCallback given to connect(); a book
\* of parseMessage has its bids and its asks. The timer of debounce remembers
\* the run of the effect whose connection delivered its argument.
HandleOrderBookUpdate(data) ==
  /\ effects > 0
  /\ nUpdates' = nUpdates + 1
  /\ IF ~Truthy(data) \/ data.t # "book"
     THEN /\ received' = [outcome |-> "ignored", data |-> data, previous |-> lastAccepted]
          /\ UNCHANGED <<hookError, hookConnected, pendingUpdateRef, timeout, lastAccepted>>
     ELSE /\ hookError' = NullStr
          /\ hookConnected' = TRUE
          /\ IF data.timestamp.n <= lastUpdateRef
             THEN /\ received' =
                       [outcome |-> "discarded", data |-> data, previous |-> lastAccepted]
                  /\ UNCHANGED <<pendingUpdateRef, timeout, lastAccepted>>
             ELSE /\ received' =
                       [outcome |-> "accepted", data |-> data, previous |-> lastAccepted]
                  /\ pendingUpdateRef' = data
                  /\ timeout' = [due |-> clock + UPDATE_THROTTLE, data |-> data, run |-> effects]
                  /\ lastAccepted' = data.timestamp.n
  /\ UNCHANGED <<orderBook, lastUpdateRef, clock, effects>>
  /\ UNCHANGED beside
  /\ UNCHANGED vars

\* the timer of debounce fires, not before it is due: the debounced function
\* runs with the argument of the last call
TimeoutFires ==
  /\ timeout # NoTimeout
  /\ clock >= timeout.due
  /\ orderBook' = processOrderBookData(timeout.data)
  /\ pendingUpdateRef' = JNull
  /\ lastUpdateRef' = clock
  /\ timeout' = NoTimeout
  /\ UNCHANGED <<hookConnected, hookError, clock, effects, received, lastAccepted, nUpdates>>
  /\ UNCHANGED beside
  /\ UNCHANGED vars

\* handleError(error), the errorCallback given to connect()
HandleError ==
  /\ effects > 0
  /\ hookError' = "Connection error. Attempting to reconnect..."
  /\ hookConnected' = FALSE
  /\ UNCHANGED <<orderBook, lastUpdateRef, pendingUpdateRef, timeout, clock, effects, received,
                 lastAccepted, nUpdates>>
  /\ UNCHANGED beside
  /\ UNCHANGED vars

\* reset() of the hook's result
Reset ==
  /\ effects > 0
  /\ orderBook' = DEFAULT_ORDERBOOK
  /\ pendingUpdateRef' = JNull
  /\ lastUpdateRef' = 0
  /\ lastAccepted' = 0
  /\ UNCHANGED <<hookConnected, hookError, timeout, clock, effects, received, nUpdates>>
  /\ UNCHANGED beside
  /\ UNCHANGED vars

\* 100 ms pass
Tick ==
  /\ clock' = clock + 100
  /\ UNCHANGED <<orderBook, hookConnected, hookError, lastUpdateRef, pendingUpdateRef, timeout,
                 effects, received, lastAccepted, nUpdates>>
  /\ UNCHANGED beside
  /\ UNCHANGED vars

\* ------------------------------------------------------------ specifications
NoRun ==
  [h |-> "none", conn |-> 0, connects |-> 0, current |-> FALSE, api |-> "none",
   called |-> NoCall]

\* the manager after construction
ServiceInit ==
  /\ socket = 0
  /\ reconnectAttempts = 0
  /\ reconnectTimeout = 0
  /\ currentExchange = NullStr
  /\ currentSymbol = NullStr
  /\ messageCallback = NullFn
  /\ errorCallback = NullFn
  /\ sockets = <<>>
  /\ timers = <<>>
  /\ webSocketDefined \in BOOLEAN
  /\ nSockets = 0
  /\ lastRun = NoRun
  /\ delayLog = <<>>
  /\ api = "none"
  /\ nConnects = 0
  /\ nFrames = 0
  /\ erroring = 0

\* ------------------------------------------------------------ useOrderSimulation
DEFAULT_FORM ==
  [exchange |-> "OKX", symbol |-> "BTC-USDT", type |-> "Limit", side |-> "Buy",
   price |-> JNull, quantity |-> JNum(1), delay |-> "immediate"]

\* the symbol both switch statements give an exchange
SymbolOf(exchange) ==
  CASE exchange = "OKX" -> "BTC-USDT"
    [] exchange = "Bybit" -> "BTCUSDT"
    [] exchange = "Deribit" -> "BTC-PERPETUAL"

getAvailableSymbols(exchange) ==
  CASE exchange = "OKX" -> <<"BTC-USDT", "ETH-USDT", "SOL-USDT", "XRP-USDT", "DOGE-USDT">>
    [] exchange = "Bybit" -> <<"BTCUSDT", "ETHUSDT", "SOLUSDT", "XRPUSDT", "DOGEUSDT">>
    [] exchange = "Deribit" -> <<"BTC-PERPETUAL", "ETH-PERPETUAL">>
    [] OTHER -> <<>>

\* the form updateForm(updates) sets, from the form before
updateForm(prev, updates) ==
  LET updated == [f \in DOMAIN prev |-> IF f \in DOMAIN updates THEN updates[f] ELSE prev[f]]
      priced == IF "type" \in DOMAIN updates /\ updates.type = "Market"
                THEN [updated EXCEPT !.price = JNull]
                ELSE updated
  IN IF "exchange" \in DOMAIN updates /\ updates.exchange # prev.exchange
     THEN [priced EXCEPT !.symbol = SymbolOf(updates.exchange)]
     ELSE priced

delayMs(delay) == IF delay = "5s" THEN 5000 ELSE IF delay = "10s" THEN 10000 ELSE 30000

\* validateForm() of OrderSimulationForm
validateForm(orderForm) ==
  /\ orderForm.symbol # ""
  /\ orderForm.quantity.n > 0
  /\ ~(orderForm.type = "Limit" /\ (~Truthy(orderForm.price) \/ orderForm.price.n <= 0))

\* the timer simulate() starts
NewExpiry(delay) == [due |-> clock + delayMs(delay), of |-> nSimulate + 1]

\* handleSubmit() of the form, rendered while there is no simulation: simulate()
\* when the form is valid
HandleSubmit ==
  /\ simulation = NoSimulation
  /\ validateForm(form)
  /\ nSimulate' = nSimulate + 1
  /\ IF Len(orderBook.bids) = 0 \/ Len(orderBook.asks) = 0
     THEN UNCHANGED <<simulation, expiries, shown>>
     ELSE /\ simulation' = simulateOrder(form, orderBook)
          /\ shown' = nSimulate + 1
          /\ expiries' = IF form.delay # "immediate"
                         THEN expiries \cup {NewExpiry(form.delay)}
                         ELSE expiries
  /\ UNCHANGED <<rawExchange, rawMessage, receivedAt, normalized, orderBook, reprocessed, stage,
                 form, page, hook, erroring>>
  /\ UNCHANGED vars

\* resetSimulation(), the button of the results, rendered while there is a
\* simulation
ResetSimulation ==
  /\ simulation # NoSimulation
  /\ simulation' = NoSimulation
  /\ shown' = 0
  /\ UNCHANGED <<rawExchange, rawMessage, receivedAt, normalized, orderBook, reprocessed, stage,
                 form, expiries, nSimulate, page, hook, erroring>>
  /\ UNCHANGED vars

\* a timer of simulate() fires, when it is due
ExpiryFires ==
  /\ \E t \in expiries :
       /\ clock >= t.due
       /\ expiries' = expiries \ {t}
  /\ simulation' = NoSimulation
  /\ shown' = 0
  /\ UNCHANGED <<rawExchange, rawMessage, receivedAt, normalized, orderBook, reprocessed, stage,
                 form, nSimulate, page, hook, erroring>>
  /\ UNCHANGED vars

\* 5 s pass; the timers that were due have fired
Wait ==
  /\ \A t \in expiries : clock < t.due
  /\ clock' = clock + 5000
  /\ UNCHANGED <<hookConnected, hookError, lastUpdateRef, pendingUpdateRef, timeout, effects,
                 received, lastAccepted, nUpdates>>
  /\ UNCHANGED <<rawExchange, rawMessage, receivedAt, normalized, orderBook, reprocessed, stage,
                 simulator, erroring>>
  /\ UNCHANGED vars

\* ------------------------------------------------------------ OrderbookViewerPage
\* handleExchangeChange(exchange), of the tabs
HandleExchangeChange(exchange) ==
  /\ activeExchange' = exchange
  /\ activeSymbol' = SymbolOf(exchange)
  /\ form' = updateForm(form, [exchange |-> exchange, symbol |-> SymbolOf(exchange)])
  /\ nChanges' = nChanges + 1
  /\ UNCHANGED <<rawExchange, rawMessage, receivedAt, normalized, orderBook, reprocessed, stage,
                 simulation, expiring, hook, erroring>>
  /\ UNCHANGED vars

\* onFormChange(updates) of the form, rendered while there is no simulation:
\* handleFormExchangeChange(updates) for another exchange than the active
\* one, updateForm(updates) otherwise
OnFormChange(updates) ==
  /\ simulation = NoSimulation
  /\ IF "exchange" \in DOMAIN updates /\ updates.exchange # activeExchange
     THEN activeExchange' = updates.exchange
     ELSE activeExchange' = activeExchange
  /\ form' = updateForm(form, updates)
  /\ nChanges' = nChanges + 1
  /\ UNCHANGED <<rawExchange, rawMessage, receivedAt, normalized, orderBook, reprocessed, stage,
                 simulation, expiring, activeSymbol, hook, erroring>>
  /\ UNCHANGED vars

\* what the controls of the form send: an exchange, a symbol of the form's
\* exchange, a type, a side, a price and a delay
FormUpdates(orderForm) ==
  {[exchange |-> e] : e \in Exchanges}
  \cup {[symbol |-> getAvailableSymbols(orderForm.exchange)[n]] :
          n \in DOMAIN getAvailableSymbols(orderForm.exchange)}
  \cup {[type |-> type] : type \in OrderTypes}
  \cup {[side |-> side] : side \in OrderSides}
  \cup {[price |-> JNum(100)]}
\* the price and the delays set before a simulation
ExpiryUpdates == {[price |-> JNum(100)]} \cup {[delay |-> d] : d \in DelayOptions}

\* nothing is given to parseMessage or processOrderBookData
NoBook == [t |-> "none"]
\* nothing is given to simulateOrder
ExpiringIdle == expiries = {} /\ nSimulate = 0 /\ shown = 0
PageIdle == activeExchange = "OKX" /\ activeSymbol = "BTC-USDT" /\ nChanges = 0
SimulatorIdle == form = NoForm /\ simulation = NoSimulation /\ ExpiringIdle /\ PageIdle
\* the hook is not mounted
HookIdle ==
  /\ hookConnected = FALSE
  /\ hookError = NullStr
  /\ lastUpdateRef = 0
  /\ pendingUpdateRef = JNull
  /\ timeout = NoTimeout
  /\ clock = 1000
  /\ effects = 0
  /\ received = NoUpdate
  /\ lastAccepted = 0
  /\ nUpdates = 0
PipelineIdle ==
  /\ rawExchange = NullStr
  /\ rawMessage = Undef
  /\ receivedAt = 0
  /\ normalized = NoBook
  /\ orderBook = NoBook
  /\ reprocessed = NoBook
  /\ stage = "idle"
  /\ SimulatorIdle
  /\ HookIdle

Init == ServiceInit /\ PipelineIdle

\* The consumer's calls and the events of sockets and timers, in any order,
\* in a run of at most maxConnects connect() calls and maxSockets sockets.
Lifecycle(maxConnects, maxSockets) ==
  \/ \E target \in Targets, withOnError \in BOOLEAN :
       nConnects < maxConnects /\ nSockets < maxSockets
       /\ Connect(target[1], target[2], withOnError)
  \/ Disconnect
  \/ \E h \in DOMAIN timers : nSockets < maxSockets /\ TimerFires(h)
  \/ \E i \in DOMAIN sockets : SocketOpens(i)
  \/ \E i \in DOMAIN sockets, withError \in BOOLEAN : SocketCloses(i, withError)

\* The frames of the exchanges, at most MaxFrames in a run.
Feed ==
  \/ \E i \in DOMAIN sockets : \E frame \in FramesOf(sockets[i].exchange) :
       nFrames < MaxFrames /\ FrameArrives(i, frame)
  \/ \E i \in DOMAIN sockets, now \in Times : MessageEvent(i, now)

\* The connection lifecycle, without frames: onmessage changes nothing of the manager.
Next == Lifecycle(MaxConnects, MaxSockets)
Spec == Init /\ [][Next]_vars

\* The connection lifecycle of one target followed through all its retries.
NextRetry == Lifecycle(RetryConnects, RetrySockets)
SpecRetry == Init /\ [][NextRetry]_vars

\* The connection lifecycle with the frames of the exchanges.
NextFeed == Lifecycle(FeedConnects, FeedSockets) \/ Feed
SpecFeed == Init /\ [][NextFeed]_vars

\* One connect() of the consumer on the fresh manager, and a transport that
\* never opens: every socket closes, with or without an error, before it opens.
NextNeverOpens ==
  \/ \E target \in Targets, withOnError \in BOOLEAN :
       nConnects = 0 /\ Connect(target[1], target[2], withOnError)
  \/ \E h \in DOMAIN timers : TimerFires(h)
  \/ \E i \in DOMAIN sockets, withError \in BOOLEAN : SocketCloses(i, withError)
SpecNeverOpens == Init /\ [][NextNeverOpens]_vars

\* The connection lifecycle with the error event and the close event of a
\* failing socket as two steps of one task.
NextError ==
  \/ \E target \in Targets, withOnError \in BOOLEAN :
       erroring = 0 /\ nConnects < MaxConnects /\ nSockets < MaxSockets
       /\ Connect(target[1], target[2], withOnError)
  \/ erroring = 0 /\ Disconnect
  \/ \E h \in DOMAIN timers : erroring = 0 /\ nSockets < MaxSockets /\ TimerFires(h)
  \/ \E i \in DOMAIN sockets : erroring = 0 /\ SocketOpens(i)
  \/ \E i \in DOMAIN sockets : erroring = 0 /\ SocketCloses(i, FALSE)
  \/ \E i \in DOMAIN sockets : ErrorEvent(i)
  \/ CloseEvent
SpecError == Init /\ [][NextError]_<<vars, pipeline>>

\* parseMessage given a message of the exchange, of another exchange or of
\* another shape, and processOrderBookData given the book it returns
InitNormalize ==
  /\ ServiceInit /\ webSocketDefined
  /\ rawExchange \in Exchanges
  /\ rawMessage \in RawMessages(rawExchange)
  /\ receivedAt \in Times
  /\ normalized = NoBook /\ orderBook = NoBook /\ reprocessed = NoBook
  /\ stage = "raw"
  /\ SimulatorIdle
  /\ HookIdle
NextNormalize == ParseMessage \/ ProcessOrderBook
SpecNormalize == InitNormalize /\ [][NextNormalize]_<<vars, pipeline>>

\* processOrderBookData given a book of numbers, and given its own result
InitAggregate ==
  /\ ServiceInit /\ webSocketDefined
  /\ rawExchange = NullStr /\ rawMessage = Undef /\ receivedAt = 0
  /\ normalized \in Books
  /\ orderBook = NoBook /\ reprocessed = NoBook
  /\ stage = "parsed"
  /\ SimulatorIdle
  /\ HookIdle
NextAggregate == ProcessOrderBook \/ ProcessAgain
SpecAggregate == InitAggregate /\ [][NextAggregate]_<<vars, pipeline>>

\* simulateOrder given an order form and a book
InitSimulate ==
  /\ ServiceInit /\ webSocketDefined
  /\ rawExchange = NullStr /\ rawMessage = Undef /\ receivedAt = 0
  /\ normalized = NoBook /\ reprocessed = NoBook
  /\ orderBook \in SimulatedBooks
  /\ form \in OrderForms
  /\ simulation = NoSimulation
  /\ ExpiringIdle /\ PageIdle
  /\ stage = "processed"
  /\ HookIdle
NextSimulate == Simulate
SpecSimulate == InitSimulate /\ [][NextSimulate]_<<vars, pipeline>>

\* The hook from its first render on: its effect, the books and errors the
\* service hands to its callbacks, its timer, reset() and the clock, in a run
\* of at most MaxUpdates books, MaxEffects targets and MaxTicks steps of the clock.
InitHook ==
  /\ ServiceInit /\ webSocketDefined
  /\ rawExchange = NullStr /\ rawMessage = Undef /\ receivedAt = 0
  /\ normalized = NoBook /\ reprocessed = NoBook
  /\ orderBook = DEFAULT_ORDERBOOK
  /\ stage = "idle"
  /\ SimulatorIdle
  /\ HookIdle
NextHook ==
  \/ effects < MaxEffects /\ Effect
  \/ \E data \in Updates(clock) : nUpdates < MaxUpdates /\ HandleOrderBookUpdate(data)
  \/ TimeoutFires
  \/ HandleError
  \/ Reset
  \/ clock < 1000 + 100 * MaxTicks /\ Tick
SpecHook == InitHook /\ [][NextHook]_<<vars, pipeline>>

\* The hook useOrderSimulation on the page: the form's price and delay are
\* set, the form is submitted, the result is reset or expires, in a run of at
\* most MaxSubmits simulations and MaxWaits steps of the clock.
InitExpiry ==
  /\ ServiceInit /\ webSocketDefined
  /\ rawExchange = NullStr /\ rawMessage = Undef /\ receivedAt = 0
  /\ normalized = NoBook /\ reprocessed = NoBook
  /\ orderBook \in {DEFAULT_ORDERBOOK, BookAt(1000)}
  /\ stage = "idle"
  /\ form = DEFAULT_FORM /\ simulation = NoSimulation
  /\ ExpiringIdle /\ PageIdle
  /\ HookIdle
NextExpiry ==
  \/ \E updates \in ExpiryUpdates : nChanges < MaxChanges /\ OnFormChange(updates)
  \/ nSimulate < MaxSubmits /\ HandleSubmit
  \/ ResetSimulation
  \/ ExpiryFires
  \/ clock < 1000 + 5000 * MaxWaits /\ Wait
SpecExpiry == InitExpiry /\ [][NextExpiry]_<<vars, pipeline>>

\* The page: the tabs and the controls of the form are changed, at most
\* MaxChanges times.
InitPage ==
  /\ ServiceInit /\ webSocketDefined
  /\ rawExchange = NullStr /\ rawMessage = Undef /\ receivedAt = 0
  /\ normalized = NoBook /\ reprocessed = NoBook
  /\ orderBook = DEFAULT_ORDERBOOK
  /\ stage = "idle"
  /\ form = DEFAULT_FORM /\ simulation = NoSimulation
  /\ ExpiringIdle /\ PageIdle
  /\ HookIdle
NextPage ==
  \/ \E exchange \in Exchanges : nChanges < MaxChanges /\ HandleExchangeChange(exchange)
  \/ \E updates \in FormUpdates(form) : nChanges < MaxChanges /\ OnFormChange(updates)
SpecPage == InitPage /\ [][NextPage]_<<vars, pipeline>>

\* ------------------------------------------------------------ claims
Target == <<currentExchange, currentSymbol, messageCallback, errorCallback>>
TargetSet == currentExchange # NullStr /\ currentSymbol # NullStr /\ messageCallback # NullFn
Live(i) == sockets[i].readyState \in {"CONNECTING", "OPEN"}
\* a callback the consumer gave, as opposed to the default () => {}
OfConsumer(callback) == callback.f \in {"onMessage", "onError"}

\* C1 (SpecNeverOpens): after one connect() on the fresh manager, with a
\* transport that never opens, the delays scheduled are 2000, 4000, 8000, 16000,
\* 30000 ms in that order; a pending timer has the delay scheduled last; no
\* sixth delay is scheduled and no more than six sockets (the first and five
\* retries) are made.
C1_BackoffSequence ==
  /\ Len(delayLog) <= 5
  /\ delayLog = SubSeq(<<2000, 4000, 8000, 16000, 30000>>, 1, Len(delayLog))
  /\ \A h \in DOMAIN timers : timers[h] = delayLog[Len(delayLog)]
  /\ nSockets <= 6

\* the fifth retry has failed too: six sockets made, the last one closed, five
\* delays scheduled and no timer pending
C1_Witness ==
  /\ nSockets = 6
  /\ socket # 0 /\ sockets[socket].readyState = "CLOSED"
  /\ delayLog = <<2000, 4000, 8000, 16000, 30000>>
  /\ DOMAIN timers = {}

\* C2 (Spec): an event of a socket invokes a callback only while no later
\* connect() of the consumer has superseded the connect() the socket was made
\* for: no event of the previous target's socket invokes a callback after the
\* switch.
C2_NoCallbackFromSupersededSocket ==
  OfConsumer(lastRun.called) => lastRun.conn = lastRun.connects

\* C3 (SpecFeed): a handler that runs after disconnect() and before the next
\* connect() invokes neither onUpdate nor onError.
C3_NoCallbackAfterDisconnect ==
  lastRun.api = "disconnect" => ~OfConsumer(lastRun.called)

\* the error handler of the old socket has run after disconnect()
C3_Witness ==
  /\ api = "disconnect"
  /\ lastRun.api = "disconnect"
  /\ lastRun.h = "error"

\* C4 (Spec): a socket that is CONNECTING or OPEN is the one the manager
\* references, so there is at most one.
C4_OneLiveSocket ==
  \A i \in DOMAIN sockets : Live(i) => i = socket

\* a connect() run by the reconnection timer has closed the live socket of the
\* same connect() call of the consumer and made the next one
C4_Witness ==
  /\ socket # 0 /\ Live(socket)
  /\ \E j \in DOMAIN sockets :
       /\ j # socket
       /\ sockets[j].readyState = "CLOSING"
       /\ sockets[j].conn = sockets[socket].conn

\* C5 (Spec): after disconnect() and before the next connect() no
\* reconnection timer is pending.
C5_NoTimerAfterDisconnect ==
  api = "disconnect" => DOMAIN timers = {}

\* C6 (Spec): the step in which the current socket opens sets the attempt
\* count to 0 and sends on that socket exactly the subscription message of the
\* current exchange and symbol, and on no other socket; and a delay scheduled
\* from an attempt count of 0 is 2000 ms.
C6_OpenResetsAndSubscribes ==
  /\ [][\A i \in DOMAIN sockets :
          (i = socket /\ sockets[i].readyState = "CONNECTING"
           /\ i \in DOMAIN sockets' /\ sockets'[i].readyState = "OPEN")
          => /\ reconnectAttempts' = 0
             /\ sockets'[i].sent = <<subscriptionMessage(currentExchange, currentSymbol)>>
             /\ \A j \in DOMAIN sockets' \ {i} :
                  j \in DOMAIN sockets /\ sockets'[j].sent = sockets[j].sent]_vars
  /\ [][(reconnectAttempts = 0 /\ reconnectAttempts' = 1)
          => /\ reconnectTimeout' \in DOMAIN timers'
             /\ timers'[reconnectTimeout'] = 2000]_vars

\* a socket made by a retry has opened: the count is 0 again and the
\* subscription of the current target is the one message sent
C6_Witness ==
  /\ isConnected
  /\ nSockets > nConnects
  /\ reconnectAttempts = 0
  /\ sockets[socket].sent = <<subscriptionMessage(currentExchange, currentSymbol)>>

\* C7 (Spec): (a) the step in which the current socket closes, with a target
\* set and fewer than 5 attempts used, leaves a pending timer in
\* reconnectTimeout; (b) while a timer stays pending the target and the
\* callbacks do not change; (c) a timer that fires with a target set, where
\* WebSocket can be constructed, leaves a new CONNECTING socket for the same
\* exchange as the current socket, with the target and the callbacks unchanged.
C7_CloseSchedulesReconnect ==
  /\ [][\A i \in DOMAIN sockets :
          (i = socket /\ sockets[i].readyState # "CLOSED"
           /\ i \in DOMAIN sockets' /\ sockets'[i].readyState = "CLOSED"
           /\ TargetSet /\ reconnectAttempts < 5)
          => /\ reconnectTimeout' \in DOMAIN timers'
             /\ reconnectTimeout' \notin DOMAIN timers
             /\ reconnectAttempts' = reconnectAttempts + 1]_vars
  /\ [][\A h \in DOMAIN timers : h \in DOMAIN timers' => Target' = Target]_vars
  /\ [][\A h \in DOMAIN timers :
          (TimerFires(h) /\ TargetSet /\ webSocketDefined)
          => /\ nSockets' = nSockets + 1
             /\ socket' \in DOMAIN sockets'
             /\ socket' \notin DOMAIN sockets
             /\ sockets'[socket'].readyState = "CONNECTING"
             /\ sockets'[socket'].exchange = currentExchange
             /\ sockets'[socket'].url = url(currentExchange)
             /\ Target' = Target]_vars

\* a socket made by the timer is connecting to the current exchange, after a
\* close of the socket of the same connect() call
C7_Witness ==
  /\ nSockets > nConnects
  /\ socket # 0
  /\ sockets[socket].readyState = "CONNECTING"
  /\ sockets[socket].exchange = currentExchange
  /\ reconnectAttempts >= 1
  /\ \A j \in DOMAIN sockets : j = socket

\* no timer is pending and the current socket, if any, is closed, with all 5
\* attempts used
Exhausted ==
  /\ reconnectAttempts = 5
  /\ DOMAIN timers = {}
  /\ socket # 0 => sockets[socket].readyState = "CLOSED"

\* C8 (SpecRetry): with 5 attempts used and no timer pending, a step other
\* than a connect() of the consumer schedules no timer and makes no socket;
\* and once the current socket has closed as well, every such step leaves the
\* manager in that condition, with isConnected() false and no socket
\* CONNECTING or OPEN, so that no message event can invoke onUpdate.
C8_ExhaustedIsTerminal ==
  /\ [][(reconnectAttempts = 5 /\ DOMAIN timers = {} /\ nConnects' = nConnects)
          => (DOMAIN timers' = {} /\ nSockets' = nSockets)]_vars
  /\ [][(Exhausted /\ nConnects' = nConnects)
          => /\ Exhausted'
             /\ ~isConnected'
             /\ \A i \in DOMAIN sockets' : sockets'[i].readyState \in {"CLOSING", "CLOSED"}
             /\ (lastRun' # lastRun => lastRun'.h = "error")]_vars

\* the sixth socket of one connect() has closed after five retries
C8_Witness ==
  /\ Exhausted
  /\ nSockets = 6
  /\ socket # 0
  /\ api = "connect"

\* C9 (Spec): after a connect() of the consumer, where WebSocket can be
\* constructed, the first delay scheduled is 2000 ms: the target starts from
\* an attempt count of 0.
C9_ConnectStartsFromZero ==
  (webSocketDefined /\ delayLog # <<>>) => delayLog[1] = 2000

\* the arguments of the callbacks a socket's message handler has invoked, in order
Delivered(handled) ==
  LET calls == SelectSeq(handled, LAMBDA e : e.called # NoCall)
  IN [k \in 1..Len(calls) |-> calls[k].arg]

\* the books that normalize gives for the frames a socket's message handler
\* has been run on, in order
Normalized(exchange, handled, now) ==
  LET parsed == [k \in 1..Len(handled) |->
                   IF JSONparse(handled[k].frame) = Throw THEN Throw
                   ELSE parseMessage(exchange, JSONparse(handled[k].frame), now)]
  IN SelectSeq(parsed, LAMBDA b : b.t = "book")

Parsed == stage = "parsed"
LevelsOf(book) == book.bids \o book.asks

\* C11 (SpecNormalize): for each exchange, parseMessage returns null for a
\* message that is no order book of that exchange: an acknowledgment or a
\* heartbeat of any exchange, an order book of another exchange, and for Bybit
\* an order-book payload whose topic does not contain "orderbook".
C11_NonBookGivesNull ==
  (Parsed /\ rawMessage \in NonBookMessages(rawExchange)) => normalized = JNull

\* Bybit's parseMessage has returned null for an order-book payload under the
\* topic of the trades
C11_Witness ==
  /\ Parsed
  /\ rawExchange = "Bybit"
  /\ rawMessage \in OffTopic
  /\ Prop(rawMessage, "topic") = JStr("publicTrade.BTCUSDT")
  /\ normalized = JNull

\* C12 (SpecNormalize): for every exchange and every decoded JSON value,
\* parseMessage returns a book or null and raises no exception.
C12_NeverThrows ==
  Parsed => normalized # Throw

\* C13 (SpecNormalize): a book that parseMessage returns has no level whose
\* price or quantity is not a number (undefined, NaN, a string).
C13_NoNonNumericLevel ==
  (Parsed /\ normalized.t = "book") =>
    \A i \in 1..Len(LevelsOf(normalized)) :
      /\ LevelsOf(normalized)[i].price.t = "num"
      /\ LevelsOf(normalized)[i].quantity.t = "num"

\* C14 (SpecNormalize): for each exchange, a book that parseMessage returns
\* has at most 50 levels a side, the depth cap the code has, however many
\* levels the raw message has.
C14_DepthCapped ==
  (Parsed /\ normalized.t = "book") =>
    /\ Len(normalized.bids) <= DepthCap
    /\ Len(normalized.asks) <= DepthCap

\* the timestamp field of a raw order-book message, undefined when it has none
OwnTimestamp(exchange, msg) ==
  CASE exchange = "OKX" -> Prop(At(Prop(msg, "data"), 0), "ts")
    [] exchange = "Bybit" -> Prop(Prop(msg, "data"), "ts")
    [] exchange = "Deribit" -> Prop(Prop(Prop(msg, "params"), "data"), "timestamp")

\* C15 (SpecNormalize): when the raw order-book payload has a timestamp field,
\* the timestamp of the book that parseMessage returns is that value, and
\* otherwise it is the time of receipt.
C15_OwnTimestampKept ==
  (Parsed /\ normalized.t = "book") =>
    IF OwnTimestamp(rawExchange, rawMessage) # Undef
    THEN normalized.timestamp = OwnTimestamp(rawExchange, rawMessage)
    ELSE normalized.timestamp = JNum(receivedAt)

\* what processOrderBookData has returned for its first argument
Processed == stage = "processed"
\* the number of levels of a side that have the price, and the price and quantity
CountPrice(levels, price) == Cardinality({i \in 1..Len(levels) : levels[i].price.n = price})
CountLevel(levels, price, quantity) ==
  Cardinality({i \in 1..Len(levels) :
                 levels[i].price.n = price /\ levels[i].quantity.n = quantity})
PricesOf(levels) == {levels[i].price.n : i \in 1..Len(levels)}
QuantitiesOf(levels) == {levels[i].quantity.n : i \in 1..Len(levels)}

\* out holds the best of the levels of given, at most 15, best first: every
\* level of out is one of given, a level of given that is left out is no better
\* than the last of out, and nothing is left out while out has fewer than 15
BestOf(given, out, descending) ==
  /\ Len(out) = Min(15, Len(given))
  /\ \A k \in 1..(Len(out) - 1) :
       IF descending THEN out[k].price.n >= out[k + 1].price.n
       ELSE out[k].price.n <= out[k + 1].price.n
  /\ \A p \in PricesOf(given), q \in QuantitiesOf(given) :
       CountLevel(out, p, q) <= CountLevel(given, p, q)
  /\ PricesOf(out) \subseteq PricesOf(given)
  /\ \A p \in PricesOf(given) :
       (Len(out) > 0 /\ (IF descending THEN p > out[Len(out)].price.n
                         ELSE p < out[Len(out)].price.n))
         => CountPrice(out, p) = CountPrice(given, p)

C17_StrictlyOrdered ==
  Processed =>
    /\ \A k \in 1..(Len(orderBook.bids) - 1) :
         orderBook.bids[k].price.n > orderBook.bids[k + 1].price.n
    /\ \A k \in 1..(Len(orderBook.asks) - 1) :
         orderBook.asks[k].price.n < orderBook.asks[k + 1].price.n

\* the total of each level of the side is the total of the level before it plus
\* its own quantity, and totals never fall along the side
Cumulative(levels) ==
  \A k \in 1..Len(levels) :
    /\ levels[k].total.n =
         (IF k = 1 THEN 0 ELSE levels[k - 1].total.n) + levels[k].quantity.n
    /\ k > 1 => levels[k].total.n >= levels[k - 1].total.n

\* C18 (SpecAggregate): in the book that processOrderBookData returns, the
\* total of the i-th level of a side is the sum of the quantities of the levels
\* up to it in output order, and so does not fall along the side, the
\* quantities being non-negative.
C18_CumulativeTotals ==
  Processed => Cumulative(orderBook.bids) /\ Cumulative(orderBook.asks)

\* bids that were not given best first: the third bid returned has a quantity
\* above 0 and the three first quantities in output order as its total
C18_Witness ==
  /\ Processed
  /\ Len(orderBook.bids) >= 3
  /\ normalized.bids[1].price # orderBook.bids[1].price
  /\ orderBook.bids[2].quantity.n > 0 /\ orderBook.bids[3].quantity.n > 0
  /\ orderBook.bids[3].total.n =
       orderBook.bids[1].quantity.n + orderBook.bids[2].quantity.n
       + orderBook.bids[3].quantity.n

\* the last total of a side, 0 for an empty side
FinalTotal(levels) == IF Len(levels) = 0 THEN 0 ELSE levels[Len(levels)].total.n

\* the percentage of each level of the side is a number of 0 to 100 that is
\* 100 times its total over the denominator, and 0 when the denominator is 0
PercentagesOf(levels, denominator) ==
  \A k \in 1..Len(levels) :
    /\ levels[k].percentage.t = "ratio"
    /\ 0 <= levels[k].percentage.num
    /\ levels[k].percentage.num <= 100 * levels[k].percentage.den
    /\ IF denominator = 0 THEN levels[k].percentage.num = 0
       ELSE levels[k].percentage.num * denominator
              = 100 * levels[k].total.n * levels[k].percentage.den

\* C19 (SpecAggregate): in the book that processOrderBookData returns for a
\* book of non-negative quantities, the percentage of every level is within
\* 0..100 and is its total over the larger of the two sides' final totals,
\* times 100; with both totals zero every percentage is 0 and nothing is
\* divided by zero.
C19_DepthPercentage ==
  Processed =>
    LET larger == Max(FinalTotal(orderBook.bids), FinalTotal(orderBook.asks))
    IN PercentagesOf(orderBook.bids, larger) /\ PercentagesOf(orderBook.asks, larger)

\* the bids total 1 and the asks 3: the bid's percentage is 100/3, the last
\* ask's is 100
C19_Witness ==
  /\ Processed
  /\ FinalTotal(orderBook.bids) = 1 /\ FinalTotal(orderBook.asks) = 3
  /\ orderBook.bids[1].percentage = Ratio(100, 3)
  /\ orderBook.asks[Len(orderBook.asks)].percentage = Ratio(100, 1)

\* C20 (SpecAggregate): for a book of at most 15 levels a side,
\* processOrderBookData given the book it returned returns a book equal to it
\* in levels, order, totals, percentages and timestamp.
C20_Idempotent ==
  [][(Processed /\ stage' = "reprocessed"
      /\ Len(normalized.bids) <= 15 /\ Len(normalized.asks) <= 15)
     => reprocessed' = orderBook]_<<vars, pipeline>>

\* the second call has been given a book whose two bids, given at one price
\* with the quantities 1 and 2 in that order, have kept their places
C20_Witness ==
  /\ stage = "reprocessed"
  /\ Len(normalized.bids) = 2
  /\ normalized.bids[1].price = normalized.bids[2].price
  /\ normalized.bids[1].quantity.n = 1 /\ normalized.bids[2].quantity.n = 2
  /\ reprocessed.bids[1].quantity.n = 1
  /\ Len(reprocessed.asks) = 1

\* C21: processOrderBookData and simulateOrder have no side effect: after a call
\* the book given (its levels and every field of every level, the absence of
\* total and percentage included) and the order form given are as they were.
C21_InputsUnchanged ==
  [][/\ (stage = "parsed" /\ stage' = "processed") => normalized' = normalized
     /\ (stage = "processed" /\ stage' = "reprocessed") => orderBook' = orderBook
     /\ (stage = "processed" /\ stage' = "simulated") => orderBook' = orderBook /\ form' = form
    ]_<<vars, pipeline>>

Simulated == stage = "simulated"
HasBothSides(book) == book # JNull /\ Len(book.bids) > 0 /\ Len(book.asks) > 0
\* quantity > 0, and a limit price > 0 for a Limit order
Validated(orderForm) ==
  /\ orderForm.quantity.n > 0
  /\ orderForm.type = "Limit" => orderForm.price # JNull /\ orderForm.price.n > 0
\* bids with prices that do not rise, asks with prices that do not fall
SortedBook(book) ==
  /\ \A i \in 1..Len(book.bids) - 1 : book.bids[i].price.n >= book.bids[i + 1].price.n
  /\ \A i \in 1..Len(book.asks) - 1 : book.asks[i].price.n <= book.asks[i + 1].price.n
\* the side an order takes from, and the side it would rest on
ConsumedSide(orderForm, book) == IF orderForm.side = "Buy" THEN book.asks ELSE book.bids
RestingSide(orderForm, book) == IF orderForm.side = "Buy" THEN book.bids ELSE book.asks
\* the quantity of the first k levels
QuantityUpTo(levels, k) ==
  LET sum[i \in 0..k] == IF i = 0 THEN 0 ELSE sum[i - 1] + levels[i].quantity.n
  IN sum[k]
\* what an order of quantity q takes of level k when the levels before it go first
TakenAt(levels, k, q) ==
  Max(0, Min(levels[k].quantity.n, q - QuantityUpTo(levels, k - 1)))
\* the value of what an order of quantity q takes of the levels
ValueTaken(levels, q) ==
  LET sum[i \in 0..Len(levels)] ==
        IF i = 0 THEN 0 ELSE sum[i - 1] + TakenAt(levels, i, q) * levels[i].price.n
  IN sum[Len(levels)]
InPercentRange(a) == a.t = "ratio" /\ 0 <= a.num /\ a.num <= 100 * a.den

\* C22: when the book has an empty side simulateOrder returns the inactive
\* result (fillPercentage 0, marketImpact 0, slippage 0, active false) for every
\* order type and side; when both sides have levels the result is active.
C22_EmptySideInactive ==
  Simulated =>
    IF HasBothSides(orderBook)
    THEN simulation.active = TRUE
    ELSE /\ simulation.active = FALSE
         /\ simulation.fillPercentage = Num(0)
         /\ simulation.marketImpact = Num(0)
         /\ simulation.slippage = Num(0)
         /\ simulation.form = form

C22_Witness ==
  /\ Simulated /\ orderBook # JNull
  /\ Len(orderBook.asks) = 0 /\ Len(orderBook.bids) > 0
  /\ form.type = "Limit" /\ form.side = "Sell"
  /\ simulation.active = FALSE

\* C23: a Market order of quantity Q on a sorted book takes the asks (Buy) or
\* the bids (Sell) from the best level on: fillPercentage is
\* min(Q, quantity of the side) / Q * 100, and where something is filled the
\* slippage is that of the quantity-weighted mean price of what was taken
\* against the best price.  Buy 2 against asks (100, 1), (101, 2) gives fill
\* 100 and slippage 0.5 (average 100.5).
C23_MarketFill ==
  (Simulated /\ HasBothSides(orderBook) /\ SortedBook(orderBook) /\ form.type = "Market") =>
    LET levels == ConsumedSide(form, orderBook)
        q == form.quantity.n
        taken == Min(q, QuantityUpTo(levels, Len(levels)))
        value == ValueTaken(levels, q)
        best == levels[1].price.n
    IN /\ simulation.fillPercentage = Ratio(100 * taken, q)
       /\ taken = q => simulation.fillPercentage = Num(100)
       /\ taken > 0 =>
            simulation.slippage =
              IF form.side = "Buy"
              THEN Ratio(100 * (value - best * taken), best * taken)
              ELSE Ratio(100 * (best * taken - value), best * taken)
       /\ (form.side = "Buy" /\ q = 2 /\ orderBook.asks = <<Level(100, 1), Level(101, 2)>>) =>
            simulation.fillPercentage = Num(100) /\ simulation.slippage = Ratio(1, 2)

C23_Witness ==
  /\ Simulated /\ HasBothSides(orderBook)
  /\ form.type = "Market" /\ form.side = "Buy" /\ form.quantity.n = 2
  /\ orderBook.asks = <<Level(100, 1), Level(101, 2)>>
  /\ simulation.slippage = Ratio(1, 2)

\* C24: a Limit order takes only the levels of the consumed side with
\* price <= limit (Buy, asks) or price >= limit (Sell, bids); a Limit Buy priced
\* below every ask has fillPercentage 0 and a marketImpact within 0..100.
C24_LimitFill ==
  (Simulated /\ HasBothSides(orderBook) /\ form.type = "Limit") =>
    LET levels == ConsumedSide(form, orderBook)
        limit == IF form.price = JNull THEN 0 ELSE form.price.n
        within == {i \in 1..Len(levels) :
                     IF form.side = "Buy" THEN levels[i].price.n <= limit
                     ELSE levels[i].price.n >= limit}
        available ==
          LET sum[i \in 0..Len(levels)] ==
                IF i = 0 THEN 0
                ELSE sum[i - 1] + (IF i \in within THEN levels[i].quantity.n ELSE 0)
          IN sum[Len(levels)]
    IN /\ simulation.fillPercentage = Ratio(100 * Min(form.quantity.n, available), form.quantity.n)
       /\ (form.side = "Buy" /\ within = {}) =>
            /\ simulation.fillPercentage = Num(0)
            /\ InPercentRange(simulation.marketImpact)

C24_Witness ==
  /\ Simulated /\ HasBothSides(orderBook)
  /\ form.type = "Limit" /\ form.side = "Buy" /\ form.price = JNum(100) /\ form.quantity.n = 2
  /\ orderBook.asks = <<Level(100, 1), Level(101, 2)>>
  /\ simulation.fillPercentage = Num(50)

\* C25: for a Limit order with fillPercentage < 100, marketImpact is
\* (1 - position / depth) * 50, depth being the number of levels of the side
\* the order would rest on and position the index, from 0, of the first of
\* them that the limit price beats (0 when it beats none): at most 50.  With
\* fillPercentage = 100 it is fillable levels / levels of the consumed side
\* * 75: at most 75.
C25_LimitImpact ==
  (Simulated /\ HasBothSides(orderBook) /\ form.type = "Limit") =>
    LET levels == ConsumedSide(form, orderBook)
        resting == RestingSide(form, orderBook)
        depth == Len(resting)
        limit == IF form.price = JNull THEN 0 ELSE form.price.n
        Beats(i) == IF form.side = "Buy" THEN limit > resting[i].price.n
                    ELSE limit < resting[i].price.n
        nFillable == Cardinality({i \in 1..Len(levels) :
                                    IF form.side = "Buy" THEN levels[i].price.n <= limit
                                    ELSE levels[i].price.n >= limit})
    IN IF simulation.fillPercentage # Num(100)
       THEN /\ \E p \in 0..depth - 1 :
                 /\ simulation.marketImpact = Ratio(50 * (depth - p), depth)
                 /\ \A i \in 1..p : ~Beats(i)
                 /\ Beats(p + 1) \/ (p = 0 /\ \A i \in 1..depth : ~Beats(i))
            /\ simulation.marketImpact.num <= 50 * simulation.marketImpact.den
       ELSE /\ simulation.marketImpact = Ratio(75 * nFillable, Len(levels))
            /\ simulation.marketImpact.num <= 75 * simulation.marketImpact.den

C25_Witness ==
  /\ Simulated /\ HasBothSides(orderBook)
  /\ form.type = "Limit" /\ form.side = "Buy" /\ form.price = JNum(101)
  /\ orderBook.bids = <<Level(101, 1), Level(100, 1)>>
  /\ simulation.fillPercentage # Num(100)
  /\ simulation.marketImpact = Num(25)

\* C26: for a validated form (quantity > 0, limit price > 0) and a book with
\* levels on both sides and no negative quantity, zero quantities included,
\* the slippage returned is a number >= 0, also when nothing is filled.
C26_SlippageDefined ==
  (Simulated /\ HasBothSides(orderBook) /\ Validated(form)) =>
    simulation.slippage.t = "ratio" /\ simulation.slippage.num >= 0

\* C27: for a validated form and a book with levels on both sides and no
\* negative quantity, fillPercentage and marketImpact are within 0..100; for a
\* Market order marketImpact is the number of levels walked (the levels up to
\* the one that completes the quantity, all when none does) over the number of
\* levels of the consumed side, times 100.
C27_PercentagesInRange ==
  (Simulated /\ HasBothSides(orderBook) /\ Validated(form)) =>
    LET levels == ConsumedSide(form, orderBook)
        completing == {k \in 1..Len(levels) : QuantityUpTo(levels, k) >= form.quantity.n}
        walked == IF completing = {} THEN Len(levels)
                  ELSE CHOOSE k \in completing : \A j \in completing : k <= j
    IN /\ InPercentRange(simulation.fillPercentage)
       /\ InPercentRange(simulation.marketImpact)
       /\ form.type = "Market" => simulation.marketImpact = Ratio(100 * walked, Len(levels))

C27_Witness ==
  /\ Simulated /\ HasBothSides(orderBook)
  /\ form.type = "Market" /\ form.side = "Sell" /\ form.quantity.n = 2
  /\ orderBook.bids = <<Level(101, 0), Level(100, 2)>>
  /\ simulation.marketImpact = Num(100)

\* C28: the time-to-fill label is a lookup: "Immediate" for a Market order; for
\* a Limit order with delay immediate, "Immediate" when filled to 100 and
\* "Partial fill" otherwise; for a Limit order with a delay of N seconds, "~Ns"
\* at fill 100, ">Ns" for a fill in (75, 100), ">>Ns" in (50, 75], ">>>Ns" in
\* (0, 50] and "Unlikely to fill" at fill 0.
C28_TimeToFillLabel ==
  (Simulated /\ HasBothSides(orderBook)) =>
    LET fill == simulation.fillPercentage
        Above(n) == fill.num > n * fill.den
    IN simulation.timeToFill =
         IF form.type = "Market" THEN "Immediate"
         ELSE IF form.delay = "immediate"
           THEN IF fill = Num(100) THEN "Immediate" ELSE "Partial fill"
         ELSE IF fill = Num(100) THEN "~" \o form.delay
         ELSE IF Above(75) THEN ">" \o form.delay
         ELSE IF Above(50) THEN ">>" \o form.delay
         ELSE IF Above(0) THEN ">>>" \o form.delay
         ELSE "Unlikely to fill"

C28_Witness ==
  /\ Simulated /\ HasBothSides(orderBook)
  /\ form.type = "Limit" /\ form.delay = "10s"
  /\ simulation.fillPercentage = Num(75)
  /\ simulation.timeToFill = ">>10s"

\* C29: a book handed to useOrderBook is discarded if and only if its timestamp
\* is less than or equal to the timestamp of the last book accepted for the
\* target; a book with a later timestamp is always accepted.
C29_DiscardedIffNotNewer ==
  received.outcome \in {"accepted", "discarded"} =>
    (received.outcome = "discarded"
       <=> (received.previous # 0 /\ received.data.timestamp.n <= received.previous))

\* C30: handling the error event of a socket invokes onError once and leaves
\* the socket reference, the attempt counter, the timer, the target and both
\* callbacks as they were; it is the close event following it that changes
\* the state of the connection.
C30_ErrorChangesNothing ==
  [][/\ (erroring = 0 /\ erroring' # 0) =>
          /\ mgr' = mgr /\ timers' = timers /\ sockets' = sockets
          /\ lastRun'.h = "error"
          /\ errorCallback # NullFn => lastRun'.called = errorCallback
          /\ errorCallback = NullFn => lastRun'.called = NoCall
     /\ erroring # 0 =>
          /\ erroring' = 0
          /\ erroring \in DOMAIN sockets' => sockets'[erroring].readyState = "CLOSED"
          /\ lastRun' = lastRun
    ]_<<vars, pipeline>>

C30_Witness ==
  /\ erroring # 0
  /\ lastRun.h = "error"
  /\ OfConsumer(lastRun.called)
  /\ reconnectAttempts = 0 /\ reconnectTimeout = 0

\* no socket, no timer, no target and no callbacks
Clean ==
  /\ socket = 0
  /\ reconnectTimeout = 0 /\ timers = <<>>
  /\ currentExchange = NullStr /\ currentSymbol = NullStr
  /\ messageCallback = NullFn /\ errorCallback = NullFn
  /\ \A i \in DOMAIN sockets : ~Live(i)
\* what disconnect() acts on, and what a call of it in this state would leave
Connection ==
  <<sockets, socket, timers, reconnectTimeout, currentExchange, currentSymbol,
    messageCallback, errorCallback>>
AfterDisconnect ==
  LET d == disconnect(timers)
  IN <<Collected(d.sockets, d.socket), d.socket, d.timers, d.reconnectTimeout,
       d.currentExchange, d.currentSymbol, d.messageCallback, d.errorCallback>>

\* C31: disconnect() called in any state (idle, connecting, subscribed, waiting
\* to reconnect, closed) leaves the manager with no socket, no timer, no target
\* and no callbacks, and a second call right after it changes nothing.
C31_DisconnectIdempotent ==
  [][Disconnect => (Clean /\ AfterDisconnect = Connection)']_vars

C31_Witness ==
  /\ api = "disconnect" /\ Clean
  /\ reconnectAttempts > 0
  /\ \E i \in DOMAIN sockets : sockets[i].readyState = "CLOSING"

\* socket i gets its close event in the step
ClosesInStep(i) ==
  /\ i \in DOMAIN sockets /\ sockets[i].readyState # "CLOSED"
  /\ i \in DOMAIN sockets' => sockets'[i].readyState = "CLOSED"

\* C32: the close event of a socket that the manager closed itself (in
\* disconnect() or at the start of connect()) triggers no reconnection: where
\* the transport fails for no socket, the attempt counter is never incremented,
\* no timer is scheduled, and a socket that is open is closed by nothing but a
\* call of the consumer.
C32_OwnCloseNeverReconnects ==
  [][webSocketDefined =>
       /\ (\E i \in DOMAIN sockets : sockets[i].readyState = "CLOSING" /\ ClosesInStep(i)) =>
            reconnectAttempts' = reconnectAttempts /\ timers' = timers
       /\ \A i \in DOMAIN sockets :
            (sockets[i].readyState = "OPEN" /\ i \in DOMAIN sockets'
             /\ sockets'[i].readyState = "CLOSING") =>
              (nConnects' # nConnects \/ api' # api)
    ]_vars

\* C33: in every reachable state at most one reconnection timer is pending, the
\* one this.reconnectTimeout holds, and the attempt counter is within 0..5,
\* whatever the order of the close events of old and current sockets, the
\* timers, connect() and disconnect().
C33_OneTimerBoundedAttempts ==
  /\ Cardinality(DOMAIN timers) <= 1
  /\ DOMAIN timers \subseteq {reconnectTimeout}
  /\ reconnectAttempts \in 0..5

C33_Witness ==
  /\ nConnects = 2 /\ nSockets = 2
  /\ delayLog = <<2000, 4000>>
  /\ Cardinality(DOMAIN timers) = 1
  /\ reconnectAttempts = 2

\* JSON.parse or the exchange's parseMessage raises on the frame
Unparsable(exchange, frame) ==
  \/ JSONparse(frame) = Throw
  \/ \A now \in Times : parseMessage(exchange, JSONparse(frame), now) = Throw

\* C34: a frame that is no valid JSON, or on which the exchange's parser
\* fails, invokes no callback and leaves the socket, the target, the attempt
\* counter and the timer as they were; an order-book frame handled on the
\* socket afterwards is still delivered to onUpdate.
C34_BadFrameContained ==
  [][\A i \in DOMAIN sockets :
       (i \in DOMAIN sockets' /\ Len(sockets'[i].handled) = Len(sockets[i].handled) + 1) =>
         LET e == sockets'[i].handled[Len(sockets'[i].handled)]
         IN /\ Unparsable(sockets[i].exchange, e.frame) =>
                 /\ e.called = NoCall /\ lastRun'.called = NoCall
                 /\ mgr' = mgr /\ timers' = timers
                 /\ sockets'[i].readyState = sockets[i].readyState
            /\ (e.frame = BookFrame(sockets[i].exchange) /\ messageCallback # NullFn) =>
                 e.called = messageCallback /\ e.arg.t = "book"
    ]_vars

C34_Witness ==
  \E i \in DOMAIN sockets :
    /\ Len(sockets[i].handled) = 2
    /\ sockets[i].handled[1].frame = NullFrame
    /\ sockets[i].handled[1].called = NoCall
    /\ sockets[i].handled[2].frame = BookFrame(sockets[i].exchange)
    /\ sockets[i].handled[2].called = OnMessage(sockets[i].conn)

\* handleOrderBookUpdate accepted an update in the step
AcceptsInStep == nUpdates' = nUpdates + 1 /\ received'.outcome = "accepted"

\* C35: the 300 ms throttle of useOrderBook never postpones the display
\* indefinitely: an accepted update that arrives more than 300 ms after the
\* last applied one is displayed in the step that accepts it, and an accepted
\* update that arrives while another one waits does not push back the time at
\* which the display is refreshed.
C35_ThrottleNeverPostpones ==
  [][AcceptsInStep =>
       /\ clock - lastUpdateRef > UPDATE_THROTTLE =>
            /\ orderBook' = processOrderBookData(received'.data)
            /\ lastUpdateRef' = clock
       /\ timeout # NoTimeout => timeout'.due <= timeout.due
    ]_<<vars, pipeline>>

\* C36: after exchange or symbol changed, the displayed book is never set
\* from an update received for the target before: the update that waits in
\* the timer of debounce when the effect runs again is not applied.
C36_NoStaleBookAfterSwitch ==
  [][TimeoutFires => timeout.run = effects]_<<vars, pipeline>>

\* C37: a result of useOrderSimulation is removed by a timer only when the
\* call of simulate() that made the result started that timer, the result's
\* own delay after it was made: the timer of an earlier simulation never
\* clears the result of a later one, and no timer clears a result whose delay
\* is immediate.
C37_OwnExpiryOnly ==
  [][(simulation # NoSimulation /\ ExpiryFires) =>
       \E t \in expiries \ expiries' :
         /\ t.of = shown
         /\ simulation.form.delay # "immediate"
         /\ clock = t.due
    ]_<<vars, pipeline>>

\* the elements of a sequence
Range(seq) == {seq[n] : n \in DOMAIN seq}

\* C40: after any changes of the tabs and of the form's exchange and symbol,
\* activeExchange is the form's exchange and activeSymbol is one of
\* getAvailableSymbols(activeExchange).
C40_PageAndFormAgree ==
  /\ activeExchange = form.exchange
  /\ activeSymbol \in Range(getAvailableSymbols(activeExchange))

\* C38: a Limit order that fills nothing reports slippage 0, for a Buy and for
\* a Sell alike, and a Limit order never reports a slippage above 0 (validated
\* form, book with levels on both sides).
C38_LimitSlippageZero ==
  (Simulated /\ HasBothSides(orderBook) /\ Validated(form) /\ form.type = "Limit") =>
    /\ simulation.fillPercentage = Num(0) => simulation.slippage = Num(0)
    /\ ~Less(Num(0), simulation.slippage)

\* the limit prices of the forms
LimitPrices == {p.n : p \in FormPrices \ {JNull}}

\* C39: for Limit orders that are not filled whole, on one sorted book,
\* marketImpact does not rise as the limit price moves deeper into the side
\* the order rests on, and a Buy limit at or below every bid (a Sell limit at
\* or above every ask) has a smaller impact than a limit better than the best
\* level of that side.
C39_ImpactFallsWithDepth ==
  (/\ Simulated /\ HasBothSides(orderBook) /\ SortedBook(orderBook)
   /\ Validated(form) /\ form.type = "Limit"
   /\ Less(simulation.fillPercentage, Num(100))) =>
    LET resting == RestingSide(form, orderBook)
        PricedAt(q) == simulateOrder([form EXCEPT !.price = JNum(q)], orderBook)
        partial == {q \in LimitPrices : Less(PricedAt(q).fillPercentage, Num(100))}
        Deeper(q) == IF form.side = "Buy" THEN q < form.price.n ELSE q > form.price.n
        Top(q) == IF form.side = "Buy" THEN q > resting[1].price.n
                  ELSE q < resting[1].price.n
        deepest == \A i \in DOMAIN resting :
                     IF form.side = "Buy" THEN form.price.n <= resting[i].price.n
                     ELSE form.price.n >= resting[i].price.n
    IN /\ \A q \in partial :
            Deeper(q) => ~Less(simulation.marketImpact, PricedAt(q).marketImpact)
       /\ deepest =>
            \A q \in partial : Top(q) => Less(simulation.marketImpact, PricedAt(q).marketImpact)

====
